---- MODULE Spec2Model ----
(***************************************************************************)
(* The agent execution loop of langchain: AgentExecutor._call and          *)
(* Agent.plan (src/langchain/agents/agent.py), the Tool descriptor         *)
(* (src/langchain/agents/tools.py), ReflexionChain._call                   *)
(* (src/langchain/agents/reflexion/base.py) and the output parsers         *)
(* OpenAIFunctionsAgentOutputParser and SelfAskOutputParser.               *)
(*                                                                         *)
(* Texts are sequences of string fragments; concatenation of texts is \o.  *)
(* An Optional value is <<>> (None) or <<v>>.                              *)
(***************************************************************************)
EXTENDS Integers, Sequences, FiniteSets, TLC

VARIABLES
    chain,                     \* the class whose _call (or parse) runs
    verbose,                   \* Chain.verbose of the executor
    events,                    \* the calls AgentExecutor._call made on its callback manager
    message,                   \* the message handed to _parse_ai_message
    self_ask_text,             \* the text handed to SelfAskOutputParser.parse
    parsed,                    \* Optional: what the output parser returned or raised
    sink_raises,               \* the notification on which the callback manager raises
    invocations,               \* the locals of two _call invocations of one executor
    prompt,                    \* Optional: the prompt an agent is constructed with
    graph,                     \* Optional: a Graph, before and after trim_first_node
    max_iterations,            \* AgentExecutor.max_iterations: Optional[int]
    return_intermediate_steps, \* AgentExecutor.return_intermediate_steps
    return_values,             \* Agent.return_values: List[str]
    fix_text_overridden,       \* does the Agent subclass override _fix_text
    pc,                        \* position of the invocation in _call / plan
    intermediate_steps,        \* the trace, a list of <<AgentAction, observation>>
    iterations,                \* the iteration counter of _call
    agent_scratchpad,          \* full_inputs["agent_scratchpad"] inside plan
    full_output,               \* full_output inside plan
    output,                    \* the AgentAction / AgentFinish plan returned
    final_output,              \* the mapping _call returned
    exc,                       \* the exception that escaped _call, "" if none
    model_calls,               \* number of llm_chain.predict calls so far
    tool_calls,                \* number of tool functions invoked so far
    fix_attempts,              \* corrective predict calls of the current plan
    plan_calls,                \* number of agent.plan calls so far
    plan_arg,                  \* the intermediate_steps handed to the last plan
    emitted,                   \* the AgentActions plan has returned, in order
    observed,                  \* the observations computed, in order
    max_execution_time,        \* the wall-clock bound the caller configures
    time_elapsed,              \* the elapsed time handed to the stopping policy
    policy_result,             \* Optional[bool]: the last value of the policy
    max_action_repetition,     \* ReflexionChain.max_action_repetition
    max_iterations_per_trial,  \* ReflexionChain.max_iterations_per_trial
    max_execution_time_per_trial, \* ReflexionChain.max_execution_time_per_trial
    trial_iterations,          \* trial_iterations of ReflexionChain._call
    reflexion_notes            \* reflexion_notes of ReflexionChain._call

vars == <<chain, verbose, events, message, self_ask_text, parsed,
          sink_raises, invocations, prompt, graph,
          max_iterations, return_intermediate_steps, return_values,
          fix_text_overridden, pc, intermediate_steps, iterations,
          agent_scratchpad, full_output, output, final_output, exc,
          model_calls, tool_calls, fix_attempts, plan_calls, plan_arg, emitted,
          observed, max_execution_time, time_elapsed, policy_result,
          max_action_repetition, max_iterations_per_trial,
          max_execution_time_per_trial, trial_iterations, reflexion_notes>>

config == <<chain, verbose, sink_raises, max_iterations, max_execution_time,
            return_intermediate_steps, return_values, fix_text_overridden,
            max_action_repetition, max_iterations_per_trial,
            max_execution_time_per_trial>>

\* the input and the result of an output parser
parsing == <<message, self_ask_text, parsed>>

\* the state of the operations that stand apart from one _call: two
\* invocations side by side, the construction of an agent, a Graph
standalone == <<invocations, prompt, graph>>

\* what the steps of AgentExecutor._call and Agent.plan never touch
aux == <<time_elapsed, policy_result, trial_iterations, reflexion_notes>>

----------------------------------------------------------------------------
(* Bounds of the model *)

\* the largest max_iterations a configuration draws
MaxIterationsBound == 2

\* llm_chain.predict is called at most this many times in one invocation
MaxModelCalls == 5

\* the largest wall-clock bound (in clock ticks) a configuration draws
MaxTimeBound == 1

----------------------------------------------------------------------------
(* Values *)

None == <<>>

Some(v) == <<v>>

Range(s) == {s[i] : i \in 1..Len(s)}

\* Agent.finish_tool_name
finish_tool_name == "Final Answer"

\* Agent.observation_prefix and Agent.llm_prefix (abstract properties)
observation_prefix == "Observation: "

llm_prefix == "Thought: "

\* The tools the executor is constructed with: tools.py Tool(name, func,
\* description, return_direct).
tools ==
    << [name |-> "calculator", func |-> "eval", return_direct |-> FALSE],
       [name |-> "search", func |-> "lookup", return_direct |-> TRUE] >>

\* The tool functions: func(tool_input) returns a string or raises.
CallFunc(func, tool_input) ==
    CASE func = "eval" /\ tool_input = "2+2" -> [raised |-> FALSE, value |-> "4"]
      [] func = "eval" /\ tool_input = "1/0" -> [raised |-> TRUE, value |-> "ZeroDivisionError"]
      [] func = "lookup" -> [raised |-> FALSE, value |-> "result for " \o tool_input]
      [] OTHER -> [raised |-> TRUE, value |-> "TypeError"]

\* What llm_chain.predict can return: one text fragment.
LLMOutputs ==
    { "Action: calculator[2+2]", "Action: calculator[1/0]",
      "Action: search[2+2]", "Action: wikipedia[2+2]",
      "Final Answer: 4", "I am not sure." }

\* Agent._extract_tool_and_input (abstract): Optional[(tool, tool_input)],
\* decided by the last fragment of the text.
_extract_tool_and_input(text) ==
    IF text = <<>> THEN None
    ELSE LET last == text[Len(text)] IN
         CASE last = "Action: calculator[2+2]" -> Some(<<"calculator", "2+2">>)
           [] last = "Action: calculator[1/0]" -> Some(<<"calculator", "1/0">>)
           [] last = "Action: search[2+2]" -> Some(<<"search", "2+2">>)
           [] last = "Action: wikipedia[2+2]" -> Some(<<"wikipedia", "2+2">>)
           [] last = "Final Answer: 4" -> Some(<<finish_tool_name, "4">>)
           [] OTHER -> None

\* _fix_text as the Agent subclasses that override it define it: the text
\* with a corrective continuation appended (section 4.5, step 3).  The base
\* class's _fix_text raises instead: FixTextNotImplemented below.
_fix_text(text) == text \o <<"\nAction: ">>

AgentAction(tool, tool_input, log) ==
    [tool |-> tool, tool_input |-> tool_input, log |-> log,
     finish |-> FALSE, return_values |-> <<>>]

AgentFinish(tool, tool_input, log, rv) ==
    [tool |-> tool, tool_input |-> tool_input, log |-> log,
     finish |-> TRUE, return_values |-> rv]

NoOutput == AgentAction("", "", <<>>)

\* no message: the parser is not the operation under way
NoMessage == [type |-> "", content |-> "", additional_kwargs |-> <<>>]

\* langchain.schema.AGENT_FINISH_OBSERVATION, a string constant
AGENT_FINISH_OBSERVATION == "AGENT_FINISH_OBSERVATION"

\* the calls on the callback manager
on_tool_start(name) == [event |-> "on_tool_start", arg |-> name]

on_tool_end(observation) == [event |-> "on_tool_end", arg |-> observation]

\* lines 233 and 246: the events around a tool function, str(chain)[:60] + "..."
ToolStartName(func) ==
    LET str == "<function " \o func \o ">" IN
    SubSeq(str, 1, IF Len(str) < 60 THEN Len(str) ELSE 60) \o "..."

----------------------------------------------------------------------------
(* Pure parts of Agent and AgentExecutor *)

\* a scratchpad that leaves out the observations
RECURSIVE thoughts_without_observation(_)
thoughts_without_observation(steps) ==
    IF steps = <<>> THEN <<>>
    ELSE thoughts_without_observation(SubSeq(steps, 1, Len(steps) - 1))
         \o steps[Len(steps)][1].log
         \o <<"\n" \o observation_prefix, "\n" \o llm_prefix>>

\* Agent.plan, lines 60-63: the scratchpad text of a trace
RECURSIVE thoughts(_)
thoughts(steps) ==
    IF steps = <<>> THEN <<>>
    ELSE thoughts(SubSeq(steps, 1, Len(steps) - 1))
         \o steps[Len(steps)][1].log
         \o <<"\n" \o observation_prefix, steps[Len(steps)][2], "\n" \o llm_prefix>>

\* Agent.plan, lines 74-77: the value plan returns for a parsed output
PlanResult(parsed_output, text) ==
    LET tool == parsed_output[1][1]
        tool_input == parsed_output[1][2]
    IN  IF tool = finish_tool_name
        THEN AgentFinish(tool, tool_input, text, [k \in {"output"} |-> tool_input])
        ELSE AgentAction(tool, tool_input, text)

\* a stopped response that fills in the first declared key only
return_stopped_response_first_key ==
    [k \in {return_values[1]} |-> "Agent stopped due to max iterations."]

\* Agent.return_stopped_response
return_stopped_response ==
    [k \in Range(return_values) |-> "Agent stopped due to max iterations."]

\* a loop condition that is off by one
_should_continue_inclusive(n) ==
    IF max_iterations = None THEN TRUE ELSE n <= max_iterations[1]

\* AgentExecutor._should_continue
_should_continue(n) ==
    IF max_iterations = None THEN TRUE ELSE n < max_iterations[1]

\* AgentExecutor._call, line 204
name_to_tool_map ==
    [n \in {tools[i].name : i \in 1..Len(tools)} |->
        (CHOOSE t \in Range(tools) : t.name = n).func]

\* a result that carries the trace whether it was asked for or not
AttachSteps_Always(m) == ("intermediate_steps" :> intermediate_steps) @@ m

\* AgentExecutor._call, lines 224-225 and 255-256
AttachSteps(m) ==
    IF return_intermediate_steps
    THEN ("intermediate_steps" :> intermediate_steps) @@ m
    ELSE m

----------------------------------------------------------------------------
(* The state after construction, at the entry of _call *)

Init ==
    /\ chain = "AgentExecutor"
    /\ verbose \in BOOLEAN
    /\ events = <<>>
    /\ sink_raises = "never"
    /\ invocations = <<>>
    /\ prompt = None
    /\ graph = None
    /\ message = NoMessage
    /\ self_ask_text = ""
    /\ parsed = None
    /\ max_execution_time = None
    /\ max_action_repetition = None
    /\ max_iterations_per_trial = None
    /\ max_execution_time_per_trial = None
    /\ time_elapsed = 0
    /\ policy_result = None
    /\ trial_iterations = 0
    /\ reflexion_notes = 0
    /\ observed = <<>>
    /\ max_iterations \in {None} \cup {Some(n) : n \in 0..MaxIterationsBound}
    /\ return_intermediate_steps \in BOOLEAN
    /\ return_values \in {<<"output">>, <<"output", "sources">>}
    /\ fix_text_overridden \in BOOLEAN
    /\ pc = "while"
    /\ intermediate_steps = <<>>
    /\ iterations = 0
    /\ agent_scratchpad = <<>>
    /\ full_output = <<>>
    /\ output = NoOutput
    /\ final_output = <<>>
    /\ exc = ""
    /\ model_calls = 0
    /\ tool_calls = 0
    /\ fix_attempts = 0
    /\ plan_calls = 0
    /\ plan_arg = <<>>
    /\ emitted = <<>>

----------------------------------------------------------------------------
(* AgentExecutor._call *)

\* a plan that is handed the trace without its latest step
EnterPlan_Stale ==
    /\ chain = "AgentExecutor"
    /\ pc = "while"
    /\ _should_continue(iterations)
    /\ pc' = "predict"
    /\ agent_scratchpad' = thoughts(plan_arg)
    /\ full_output' = <<>>
    /\ fix_attempts' = 0
    /\ plan_calls' = plan_calls + 1
    /\ plan_arg' = IF intermediate_steps = <<>> THEN <<>>
                   ELSE SubSeq(intermediate_steps, 1, Len(intermediate_steps) - 1)
    /\ UNCHANGED <<config, parsing, standalone, events, aux, observed, intermediate_steps, iterations, output,
                   final_output, exc, model_calls, tool_calls, emitted>>

\* line 213, the loop condition holds: agent.plan is entered (lines 60-65)
EnterPlan ==
    /\ chain = "AgentExecutor"
    /\ pc = "while"
    /\ _should_continue(iterations)
    /\ pc' = "predict"
    /\ agent_scratchpad' = thoughts(intermediate_steps)
    /\ full_output' = <<>>
    /\ fix_attempts' = 0
    /\ plan_calls' = plan_calls + 1
    /\ plan_arg' = intermediate_steps
    /\ UNCHANGED <<config, parsing, standalone, events, aux, observed, intermediate_steps, iterations, output, final_output,
                   exc, model_calls, tool_calls, emitted>>

\* line 213 is false: lines 254-257
ReturnStopped ==
    /\ chain = "AgentExecutor"
    /\ pc = "while"
    /\ ~_should_continue(iterations)
    /\ pc' = "STOPPED_BY_LIMIT"
    /\ final_output' = AttachSteps(return_stopped_response)
    /\ UNCHANGED <<config, parsing, standalone, events, aux, observed, intermediate_steps, iterations, agent_scratchpad,
                   full_output, output, exc, model_calls, tool_calls,
                   fix_attempts, plan_calls, plan_arg, emitted>>

\* the end of plan (lines 74-77) once the text parses, else the fix loop
AfterPredict(text) ==
    LET parsed_output == _extract_tool_and_input(text) IN
    /\ full_output' = text
    /\ IF parsed_output = None
       THEN /\ pc' = "fix"
            /\ UNCHANGED <<output, emitted>>
       ELSE /\ pc' = "dispatch"
            /\ output' = PlanResult(parsed_output, text)
            /\ emitted' = IF PlanResult(parsed_output, text).finish
                          THEN emitted
                          ELSE Append(emitted, PlanResult(parsed_output, text))

\* plan, lines 66-67: the first model call of a plan returns a text
Predict ==
    /\ pc = "predict"
    /\ model_calls < MaxModelCalls
    /\ \E text \in LLMOutputs :
          AfterPredict(<<text>>)
    /\ model_calls' = model_calls + 1
    /\ UNCHANGED <<config, parsing, standalone, events, aux, observed, intermediate_steps, iterations, agent_scratchpad,
                   final_output, exc, tool_calls, fix_attempts, plan_calls,
                   plan_arg>>

\* a model error that is swallowed and the call made again
PredictRaises_Retry ==
    /\ pc \in {"predict", "fix"}
    /\ model_calls < MaxModelCalls
    /\ exc' = "ModelInvocationError"
    /\ model_calls' = model_calls + 1
    /\ UNCHANGED <<config, parsing, standalone, events, aux, observed, pc, intermediate_steps, iterations, agent_scratchpad,
                   full_output, output, final_output, tool_calls, fix_attempts,
                   plan_calls, plan_arg, emitted>>

\* plan, lines 66 and 71: the model call raises
PredictRaises ==
    /\ pc \in {"predict", "fix"}
    /\ model_calls < MaxModelCalls
    /\ pc = "fix" => fix_text_overridden
    /\ pc' = "FAILED"
    /\ exc' = "ModelInvocationError"
    /\ model_calls' = model_calls + 1
    /\ agent_scratchpad' = IF pc = "fix"
                           THEN agent_scratchpad \o _fix_text(full_output)
                           ELSE agent_scratchpad
    /\ full_output' = IF pc = "fix" THEN _fix_text(full_output) ELSE full_output
    /\ UNCHANGED <<config, parsing, standalone, events, aux, observed, intermediate_steps, iterations, output, final_output,
                   tool_calls, fix_attempts, plan_calls, plan_arg, emitted>>

\* plan, lines 68-73: one round of the fix loop
FixText ==
    /\ pc = "fix"
    /\ fix_text_overridden
    /\ model_calls < MaxModelCalls
    /\ \E text \in LLMOutputs :
          /\ AfterPredict(_fix_text(full_output) \o <<text>>)
    /\ agent_scratchpad' = agent_scratchpad \o _fix_text(full_output)
    /\ model_calls' = model_calls + 1
    /\ fix_attempts' = fix_attempts + 1
    /\ UNCHANGED <<config, parsing, standalone, events, aux, observed, intermediate_steps, iterations, final_output, exc,
                   tool_calls, plan_calls, plan_arg>>

\* plan, line 69 with Agent._fix_text of the base class (lines 39-41)
FixTextNotImplemented ==
    /\ pc = "fix"
    /\ ~fix_text_overridden
    /\ pc' = "FAILED"
    /\ exc' = "ValueError"
    /\ UNCHANGED <<config, parsing, standalone, events, aux, observed, intermediate_steps, iterations, agent_scratchpad,
                   full_output, output, final_output, model_calls, tool_calls,
                   fix_attempts, plan_calls, plan_arg, emitted>>

\* lines 219-222, 232-234, 240-242 and 246-251: a notification is a plain
\* call on the callback manager inside `if self.verbose:`, so it returns
\* only when the manager does not raise on that event
SinkDelivers(event) == ~(verbose /\ sink_raises = event)

\* lines 217-226: plan returned an AgentFinish; final_output is the very
\* dict of the AgentFinish, which line 225 therefore extends too
ReturnFinish ==
    /\ chain = "AgentExecutor"
    /\ pc = "dispatch"
    /\ SinkDelivers("on_tool_start")
    /\ SinkDelivers("on_tool_end")
    /\ output.finish
    /\ pc' = "FINISHED"
    /\ final_output' = AttachSteps(output.return_values)
    /\ output' = [output EXCEPT !.return_values = AttachSteps(output.return_values)]
    /\ events' = IF verbose
                 THEN events \o <<on_tool_start("Finish"), on_tool_end(AGENT_FINISH_OBSERVATION)>>
                 ELSE events
    /\ UNCHANGED <<config, parsing, standalone, aux, observed, intermediate_steps, iterations,
                   agent_scratchpad, full_output, exc, model_calls, tool_calls,
                   fix_attempts, plan_calls, plan_arg, emitted>>

\* a dispatch that records the step at the head of the trace
ToolReturns_Prepend ==
    /\ chain = "AgentExecutor"
    /\ pc = "dispatch"
    /\ SinkDelivers("on_tool_start")
    /\ SinkDelivers("on_tool_end")
    /\ ~output.finish
    /\ output.tool \in DOMAIN name_to_tool_map
    /\ LET r == CallFunc(name_to_tool_map[output.tool], output.tool_input) IN
          /\ ~r.raised
          /\ intermediate_steps' = <<<<output, r.value>>>> \o intermediate_steps
          /\ observed' = Append(observed, r.value)
    /\ tool_calls' = tool_calls + 1
    /\ iterations' = iterations + 1
    /\ pc' = "while"
    /\ events' = IF verbose
                 THEN events \o <<on_tool_start(ToolStartName(name_to_tool_map[output.tool])),
                                  on_tool_end(observed'[Len(observed')])>>
                 ELSE events
    /\ UNCHANGED <<config, parsing, standalone, aux, agent_scratchpad, full_output, output, final_output,
                   exc, model_calls, fix_attempts, plan_calls, plan_arg, emitted>>

\* lines 229-237 and 252-253: the tool is registered and its function returns
ToolReturns ==
    /\ chain = "AgentExecutor"
    /\ pc = "dispatch"
    /\ SinkDelivers("on_tool_start")
    /\ SinkDelivers("on_tool_end")
    /\ ~output.finish
    /\ output.tool \in DOMAIN name_to_tool_map
    /\ LET r == CallFunc(name_to_tool_map[output.tool], output.tool_input) IN
          /\ ~r.raised
          /\ intermediate_steps' = Append(intermediate_steps, <<output, r.value>>)
          /\ observed' = Append(observed, r.value)
    /\ tool_calls' = tool_calls + 1
    /\ iterations' = iterations + 1
    /\ pc' = "while"
    /\ events' = IF verbose
                 THEN events \o <<on_tool_start(ToolStartName(name_to_tool_map[output.tool])),
                                  on_tool_end(observed'[Len(observed')])>>
                 ELSE events
    /\ UNCHANGED <<config, parsing, standalone, aux, agent_scratchpad, full_output, output, final_output,
                   exc, model_calls, fix_attempts, plan_calls, plan_arg, emitted>>

\* line 236: the tool function raises; nothing in _call catches it
ToolRaises ==
    /\ chain = "AgentExecutor"
    /\ pc = "dispatch"
    /\ SinkDelivers("on_tool_start")
    /\ ~output.finish
    /\ output.tool \in DOMAIN name_to_tool_map
    /\ LET r == CallFunc(name_to_tool_map[output.tool], output.tool_input) IN
          /\ r.raised
          /\ exc' = r.value
    /\ tool_calls' = tool_calls + 1
    /\ pc' = "FAILED"
    /\ events' = IF verbose
                 THEN events \o <<on_tool_start(ToolStartName(name_to_tool_map[output.tool]))>>
                 ELSE events
    /\ UNCHANGED <<config, parsing, standalone, aux, observed, intermediate_steps, iterations, agent_scratchpad,
                   full_output, output, final_output, model_calls,
                   fix_attempts, plan_calls, plan_arg, emitted>>

\* a lookup of the tool without the membership test of line 229
InvalidTool_KeyError ==
    /\ chain = "AgentExecutor"
    /\ pc = "dispatch"
    /\ ~output.finish
    /\ output.tool \notin DOMAIN name_to_tool_map
    /\ pc' = "FAILED"
    /\ exc' = "KeyError"
    /\ UNCHANGED <<config, parsing, standalone, events, aux, observed, intermediate_steps, iterations, agent_scratchpad,
                   full_output, output, final_output, model_calls, tool_calls,
                   fix_attempts, plan_calls, plan_arg, emitted>>

\* an observation for an unknown tool that tells a first dispatch from a later one
InvalidTool_Numbered ==
    /\ chain = "AgentExecutor"
    /\ pc = "dispatch"
    /\ SinkDelivers("on_tool_start")
    /\ SinkDelivers("on_tool_end")
    /\ ~output.finish
    /\ output.tool \notin DOMAIN name_to_tool_map
    /\ intermediate_steps' =
          Append(intermediate_steps,
                 <<output, output.tool \o " is not a valid tool, try another one."
                       \o (IF iterations = 0 THEN "" ELSE " Again.")>>)
    /\ observed' = Append(observed, output.tool \o " is not a valid tool, try another one."
                       \o (IF iterations = 0 THEN "" ELSE " Again."))
    /\ iterations' = iterations + 1
    /\ pc' = "while"
    /\ events' = IF verbose
                 THEN events \o <<on_tool_start("N/A"),
                                  on_tool_end(observed'[Len(observed')])>>
                 ELSE events
    /\ UNCHANGED <<config, parsing, standalone, aux, agent_scratchpad, full_output, output, final_output,
                   exc, model_calls, tool_calls, fix_attempts, plan_calls,
                   plan_arg, emitted>>

\* lines 238-244 and 252-253: the tool is not in the registry
InvalidTool ==
    /\ chain = "AgentExecutor"
    /\ pc = "dispatch"
    /\ SinkDelivers("on_tool_start")
    /\ SinkDelivers("on_tool_end")
    /\ ~output.finish
    /\ output.tool \notin DOMAIN name_to_tool_map
    /\ intermediate_steps' =
          Append(intermediate_steps,
                 <<output, output.tool \o " is not a valid tool, try another one.">>)
    /\ observed' = Append(observed, output.tool \o " is not a valid tool, try another one.")
    /\ iterations' = iterations + 1
    /\ pc' = "while"
    /\ events' = IF verbose
                 THEN events \o <<on_tool_start("N/A"),
                                  on_tool_end(observed'[Len(observed')])>>
                 ELSE events
    /\ UNCHANGED <<config, parsing, standalone, aux, agent_scratchpad, full_output, output, final_output,
                   exc, model_calls, tool_calls, fix_attempts, plan_calls,
                   plan_arg, emitted>>

Next ==
    \/ EnterPlan
    \/ ReturnStopped
    \/ Predict
    \/ PredictRaises
    \/ FixText
    \/ FixTextNotImplemented
    \/ ReturnFinish
    \/ ToolReturns
    \/ ToolRaises
    \/ InvalidTool

Spec == Init /\ [][Next]_vars

\* lines 219-221, 232-234 and 240-242: on_tool_start raises; the call is the
\* first statement of each branch and no try encloses it, so the exception
\* leaves _call before the tool runs and before the step is appended
SinkRaisesOnStart ==
    /\ chain = "AgentExecutor"
    /\ pc = "dispatch"
    /\ ~SinkDelivers("on_tool_start")
    /\ pc' = "FAILED"
    /\ exc' = "CallbackError"
    /\ UNCHANGED <<config, parsing, standalone, events, aux, observed, intermediate_steps,
                   iterations, agent_scratchpad, full_output, output, final_output,
                   model_calls, tool_calls, fix_attempts, plan_calls, plan_arg, emitted>>

\* lines 222 and 246-251: on_tool_start was delivered, the tool (if any) has
\* returned, and on_tool_end raises; the exception leaves _call before
\* line 252 appends the step and before line 226 returns the final output
SinkRaisesOnEnd ==
    /\ chain = "AgentExecutor"
    /\ pc = "dispatch"
    /\ SinkDelivers("on_tool_start")
    /\ ~SinkDelivers("on_tool_end")
    /\ \/ /\ output.finish
          /\ events' = Append(events, on_tool_start("Finish"))
          /\ UNCHANGED <<observed, tool_calls>>
       \/ /\ ~output.finish
          /\ output.tool \in DOMAIN name_to_tool_map
          /\ LET r == CallFunc(name_to_tool_map[output.tool], output.tool_input) IN
                /\ ~r.raised
                /\ observed' = Append(observed, r.value)
          /\ tool_calls' = tool_calls + 1
          /\ events' = Append(events,
                              on_tool_start(ToolStartName(name_to_tool_map[output.tool])))
       \/ /\ ~output.finish
          /\ output.tool \notin DOMAIN name_to_tool_map
          /\ observed' = Append(observed, output.tool \o " is not a valid tool, try another one.")
          /\ events' = Append(events, on_tool_start("N/A"))
          /\ UNCHANGED tool_calls
    /\ pc' = "FAILED"
    /\ exc' = "CallbackError"
    /\ UNCHANGED <<config, parsing, standalone, aux, intermediate_steps, iterations,
                   agent_scratchpad, full_output, output, final_output, model_calls,
                   fix_attempts, plan_calls, plan_arg, emitted>>

\* an executor that notifies (verbose) a callback manager that may raise
InitSink ==
    /\ chain = "AgentExecutor"
    /\ verbose = TRUE
    /\ events = <<>>
    /\ sink_raises \in {"never", "on_tool_start", "on_tool_end"}
    /\ invocations = <<>>
    /\ prompt = None
    /\ graph = None
    /\ message = NoMessage
    /\ self_ask_text = ""
    /\ parsed = None
    /\ max_execution_time = None
    /\ max_action_repetition = None
    /\ max_iterations_per_trial = None
    /\ max_execution_time_per_trial = None
    /\ time_elapsed = 0
    /\ policy_result = None
    /\ trial_iterations = 0
    /\ reflexion_notes = 0
    /\ observed = <<>>
    /\ max_iterations \in {None} \cup {Some(n) : n \in 0..MaxIterationsBound}
    /\ return_intermediate_steps \in BOOLEAN
    /\ return_values \in {<<"output">>, <<"output", "sources">>}
    /\ fix_text_overridden \in BOOLEAN
    /\ pc = "while"
    /\ intermediate_steps = <<>>
    /\ iterations = 0
    /\ agent_scratchpad = <<>>
    /\ full_output = <<>>
    /\ output = NoOutput
    /\ final_output = <<>>
    /\ exc = ""
    /\ model_calls = 0
    /\ tool_calls = 0
    /\ fix_attempts = 0
    /\ plan_calls = 0
    /\ plan_arg = <<>>
    /\ emitted = <<>>

NextSink ==
    \/ Next
    \/ SinkRaisesOnStart
    \/ SinkRaisesOnEnd

SpecSink == InitSink /\ [][NextSink]_vars

----------------------------------------------------------------------------
(* ReflexionChain._call (src/langchain/agents/reflexion/base.py).  The     *)
(* chain plans with Agent.plan above.  Its base class's helpers            *)
(* (_should_continue with an elapsed time, _take_next_step,                *)
(* _get_tool_return, _return) are the stopping policy, the tool            *)
(* dispatcher and the result construction of the design: sections 4.3,     *)
(* 4.4 and 4.5.  The chain reports to a run_manager that it hands to those  *)
(* helpers; events stays the record of AgentExecutor._call's own calls.    *)

\* line 204: time.time() when the loop starts, seconds since the epoch:
\* larger than every wall-clock bound a configuration draws
total_start_time == MaxTimeBound + 1

\* the stopping policy over both counters (section 4.4)
_should_continue_timed(n, elapsed) ==
    /\ ~(max_iterations # None /\ n >= max_iterations[1])
    /\ ~(max_execution_time # None /\ elapsed >= max_execution_time[1])

\* the tool dispatcher (section 4.3): the observation of an Action
dispatch(action) ==
    IF action.tool \in DOMAIN name_to_tool_map
    THEN LET r == CallFunc(name_to_tool_map[action.tool], action.tool_input) IN
         IF r.raised THEN "error: " \o r.value ELSE r.value
    ELSE action.tool \o " is not a valid tool, try another one."

\* the result of a Finish or of a stop, with the trace on request (section 4.5)
_return(m, steps) ==
    IF return_intermediate_steps THEN ("intermediate_steps" :> steps) @@ m ELSE m

\* return-directly tools (section 4.3)
_get_tool_return(action) ==
    \E i \in 1..Len(tools) : tools[i].name = action.tool /\ tools[i].return_direct

\* ReflexionChain._should_reflect: "True", or "NameError" when the bare name
\* _count_repetitions (a static method of the class) is evaluated
_should_reflect(steps, iterations_in_trial, time_elapsed_in_trial, _max_action_repetition, _max_iterations_per_trial, _max_time_elapsed_per_trial) ==
    IF _max_iterations_per_trial # None
       /\ iterations_in_trial >= _max_iterations_per_trial[1]
    THEN "True"
    ELSE IF _max_time_elapsed_per_trial # None
            /\ time_elapsed_in_trial >= _max_time_elapsed_per_trial[1]
    THEN "True"
    ELSE IF _max_action_repetition # None
    THEN "NameError"
    ELSE "True"

RxInit ==
    /\ chain = "ReflexionChain"
    /\ verbose = FALSE
    /\ events = <<>>
    /\ sink_raises = "never"
    /\ invocations = <<>>
    /\ prompt = None
    /\ graph = None
    /\ message = NoMessage
    /\ self_ask_text = ""
    /\ parsed = None
    /\ max_iterations \in {None, Some(MaxIterationsBound)}
    /\ max_execution_time \in {None, Some(MaxTimeBound)}
    /\ return_intermediate_steps \in BOOLEAN
    /\ return_values = <<"output">>
    /\ fix_text_overridden = TRUE
    /\ max_action_repetition \in {None, Some(2)}
    /\ max_iterations_per_trial \in {None, Some(1)}
    /\ max_execution_time_per_trial \in {None, Some(MaxTimeBound)}
    /\ pc = "while"
    /\ iterations = 0
    /\ time_elapsed = 0
    /\ policy_result = None
    /\ intermediate_steps = <<>>
    /\ agent_scratchpad = <<>>
    /\ full_output = <<>>
    /\ output = NoOutput
    /\ final_output = <<>>
    /\ exc = ""
    /\ model_calls = 0
    /\ tool_calls = 0
    /\ fix_attempts = 0
    /\ plan_calls = 0
    /\ plan_arg = <<>>
    /\ emitted = <<>>
    /\ observed = <<>>
    /\ trial_iterations = 0
    /\ reflexion_notes = 0

\* line 213 holds; lines 216-222 call agent.plan on the trace
RxEnterPlan ==
    /\ chain = "ReflexionChain"
    /\ pc = "while"
    /\ _should_continue_timed(iterations, total_start_time)
    /\ pc' = "predict"
    /\ agent_scratchpad' = thoughts(intermediate_steps)
    /\ full_output' = <<>>
    /\ fix_attempts' = 0
    /\ plan_calls' = plan_calls + 1
    /\ plan_arg' = intermediate_steps
    /\ UNCHANGED <<config, parsing, standalone, events, aux, observed, intermediate_steps, iterations, output,
                   final_output, exc, model_calls, tool_calls, emitted>>

\* line 213 is false: lines 263-266
RxReturnStopped ==
    /\ chain = "ReflexionChain"
    /\ pc = "while"
    /\ ~_should_continue_timed(iterations, total_start_time)
    /\ pc' = "STOPPED_BY_LIMIT"
    /\ final_output' = _return(return_stopped_response, intermediate_steps)
    /\ UNCHANGED <<config, parsing, standalone, events, aux, observed, intermediate_steps, iterations,
                   agent_scratchpad, full_output, output, exc, model_calls,
                   tool_calls, fix_attempts, plan_calls, plan_arg, emitted>>

\* lines 223-226
RxReturnFinish ==
    /\ chain = "ReflexionChain"
    /\ pc = "dispatch"
    /\ output.finish
    /\ pc' = "FINISHED"
    /\ final_output' = _return(output.return_values, intermediate_steps)
    /\ UNCHANGED <<config, parsing, standalone, events, aux, observed, intermediate_steps, iterations,
                   agent_scratchpad, full_output, output, exc, model_calls,
                   tool_calls, fix_attempts, plan_calls, plan_arg, emitted>>

\* the dispatch inside _take_next_step, then lines 228-240
RxTakeNextStep ==
    /\ chain = "ReflexionChain"
    /\ pc = "dispatch"
    /\ ~output.finish
    /\ intermediate_steps' = Append(intermediate_steps, <<output, dispatch(output)>>)
    /\ observed' = Append(observed, dispatch(output))
    /\ tool_calls' = IF output.tool \in DOMAIN name_to_tool_map
                     THEN tool_calls + 1 ELSE tool_calls
    /\ IF _get_tool_return(output)
       THEN /\ pc' = "FINISHED"
            /\ final_output' = _return([k \in {"output"} |-> dispatch(output)],
                                       intermediate_steps')
            /\ UNCHANGED <<iterations, trial_iterations>>
       ELSE /\ pc' = "should_reflect"
            /\ iterations' = iterations + 1
            /\ trial_iterations' = trial_iterations + 1
            /\ UNCHANGED final_output
    /\ UNCHANGED <<config, parsing, standalone, events, time_elapsed, policy_result, reflexion_notes,
                   agent_scratchpad, full_output, output, exc, model_calls,
                   fix_attempts, plan_calls, plan_arg, emitted>>

\* lines 243-250: trial_time_elapsed is whatever the clock gives
RxShouldReflect ==
    /\ chain = "ReflexionChain"
    /\ pc = "should_reflect"
    /\ \E trial_time_elapsed \in 0..MaxTimeBound :
          LET trial_failed ==
                 _should_reflect(intermediate_steps, trial_iterations,
                                 trial_time_elapsed, max_action_repetition,
                                 max_iterations_per_trial,
                                 max_execution_time_per_trial)
          IN  IF trial_failed = "NameError"
              THEN pc' = "FAILED" /\ exc' = "NameError"
              ELSE /\ pc' = IF trial_failed = "True" THEN "reflect" ELSE "while"
                   /\ exc' = exc
    /\ UNCHANGED <<config, parsing, standalone, events, aux, observed, intermediate_steps, iterations,
                   agent_scratchpad, full_output, output, final_output,
                   model_calls, tool_calls, fix_attempts, plan_calls, plan_arg,
                   emitted>>

\* lines 252-260: agent._reflect (lines 91-105) returns its notes, and a new
\* trial starts with an empty trace
RxReflect ==
    /\ chain = "ReflexionChain"
    /\ pc = "reflect"
    /\ reflexion_notes' = reflexion_notes + 1
    /\ trial_iterations' = 0
    /\ intermediate_steps' = <<>>
    /\ pc' = "while"
    /\ UNCHANGED <<config, parsing, standalone, events, time_elapsed, policy_result, observed, iterations,
                   agent_scratchpad, full_output, output, final_output, exc,
                   model_calls, tool_calls, fix_attempts, plan_calls, plan_arg,
                   emitted>>

\* line 253: agent._reflect raises (its model call, its parser, its helpers)
RxReflectRaises ==
    /\ chain = "ReflexionChain"
    /\ pc = "reflect"
    /\ pc' = "FAILED"
    /\ exc' = "ReflectError"
    /\ UNCHANGED <<config, parsing, standalone, events, aux, observed, intermediate_steps, iterations,
                   agent_scratchpad, full_output, output, final_output,
                   model_calls, tool_calls, fix_attempts, plan_calls, plan_arg,
                   emitted>>

RxNext ==
    \/ RxEnterPlan
    \/ RxReturnStopped
    \/ Predict
    \/ PredictRaises
    \/ FixText
    \/ RxReturnFinish
    \/ RxTakeNextStep
    \/ RxShouldReflect
    \/ RxReflect
    \/ RxReflectRaises

\* both loops: an invocation of AgentExecutor._call or of ReflexionChain._call
InitLoops == Init \/ RxInit

NextLoops == Next \/ RxNext

SpecLoops == InitLoops /\ [][NextLoops]_vars

----------------------------------------------------------------------------
(* Both loops, constructed with a wall-clock bound of 0 seconds or with    *)
(* none.  AgentExecutor takes the bound through **kwargs of                *)
(* from_agent_and_tools and declares no field for it; ReflexionChain       *)
(* hands its start time to the stopping policy (line 213).                 *)

InitTimed ==
    /\ chain \in {"AgentExecutor", "ReflexionChain"}
    /\ max_execution_time \in {None, Some(0)}
    /\ max_iterations \in {None, Some(MaxIterationsBound)}
    /\ return_intermediate_steps \in BOOLEAN
    /\ return_values \in {<<"output">>, <<"output", "sources">>}
    /\ chain = "ReflexionChain" => return_values = <<"output">>
    /\ fix_text_overridden \in BOOLEAN
    /\ chain = "ReflexionChain" => fix_text_overridden
    /\ verbose = FALSE
    /\ events = <<>>
    /\ sink_raises = "never"
    /\ invocations = <<>>
    /\ prompt = None
    /\ graph = None
    /\ message = NoMessage
    /\ self_ask_text = ""
    /\ parsed = None
    /\ max_action_repetition = None
    /\ max_iterations_per_trial = None
    /\ max_execution_time_per_trial = None
    /\ pc = "while"
    /\ iterations = 0
    /\ time_elapsed = 0
    /\ policy_result = None
    /\ intermediate_steps = <<>>
    /\ agent_scratchpad = <<>>
    /\ full_output = <<>>
    /\ output = NoOutput
    /\ final_output = <<>>
    /\ exc = ""
    /\ model_calls = 0
    /\ tool_calls = 0
    /\ fix_attempts = 0
    /\ plan_calls = 0
    /\ plan_arg = <<>>
    /\ emitted = <<>>
    /\ observed = <<>>
    /\ trial_iterations = 0
    /\ reflexion_notes = 0

NextTimed == NextLoops

SpecTimed == InitTimed /\ [][NextTimed]_vars

----------------------------------------------------------------------------
(* The stopping policy on its own: AgentExecutor._should_continue applied  *)
(* to counters that only grow, for every configuration of the two bounds   *)
(* a caller can ask for.  max_execution_time reaches the constructor       *)
(* through **kwargs of from_agent_and_tools; AgentExecutor declares no     *)
(* such field and _should_continue takes the iteration counter only.       *)

InitPolicy ==
    /\ chain = "AgentExecutor"
    /\ verbose = FALSE
    /\ events = <<>>
    /\ sink_raises = "never"
    /\ invocations = <<>>
    /\ prompt = None
    /\ graph = None
    /\ message = NoMessage
    /\ self_ask_text = ""
    /\ parsed = None
    /\ max_iterations \in {None} \cup {Some(n) : n \in 0..MaxIterationsBound}
    /\ max_execution_time \in {None} \cup {Some(t) : t \in 0..MaxTimeBound}
    /\ return_intermediate_steps = FALSE
    /\ return_values = <<"output">>
    /\ fix_text_overridden = FALSE
    /\ max_action_repetition = None
    /\ max_iterations_per_trial = None
    /\ max_execution_time_per_trial = None
    /\ pc = "policy"
    /\ iterations = 0
    /\ time_elapsed = 0
    /\ policy_result = None
    /\ intermediate_steps = <<>>
    /\ agent_scratchpad = <<>>
    /\ full_output = <<>>
    /\ output = NoOutput
    /\ final_output = <<>>
    /\ exc = ""
    /\ model_calls = 0
    /\ tool_calls = 0
    /\ fix_attempts = 0
    /\ plan_calls = 0
    /\ plan_arg = <<>>
    /\ emitted = <<>>
    /\ observed = <<>>
    /\ trial_iterations = 0
    /\ reflexion_notes = 0

\* the counters advance (each by 0 or 1) and the policy is evaluated on them
EvaluatePolicy ==
    /\ pc = "policy"
    /\ \E di \in 0..1, dt \in 0..1 :
          /\ iterations + di <= MaxIterationsBound + 1
          /\ time_elapsed + dt <= MaxTimeBound + 1
          /\ iterations' = iterations + di
          /\ time_elapsed' = time_elapsed + dt
    /\ policy_result' = Some(_should_continue(iterations'))
    /\ UNCHANGED <<config, parsing, standalone, events, pc, intermediate_steps, agent_scratchpad, full_output,
                   output, final_output, exc, model_calls, tool_calls,
                   fix_attempts, plan_calls, plan_arg, emitted, observed,
                   trial_iterations, reflexion_notes>>

NextPolicy == EvaluatePolicy

SpecPolicy == InitPolicy /\ [][NextPolicy]_vars

----------------------------------------------------------------------------
(* The output parsers: OpenAIFunctionsAgentOutputParser._parse_ai_message  *)
(* (src/libs/langchain/langchain/agents/output_parsers/                    *)
(* openai_functions.py) and SelfAskOutputParser.parse                      *)
(* (src/langchain/agents/self_ask_with_search/output_parser.py).  Python   *)
(* strings are strings here, one character after the other; a Python       *)
(* value is a record of its type and its value, a dict being the sequence  *)
(* of its <<key, value>> items in insertion order.                         *)

\* a text is made of at most this many pieces
MaxPieces == 3

PyStr(s) == [type |-> "str", value |-> s]

PyInt(n) == [type |-> "int", value |-> n]

PyDict(items) == [type |-> "dict", value |-> items]

PyList(elems) == [type |-> "list", value |-> elems]

PyNone == [type |-> "NoneType", value |-> <<>>]

\* sub in s, for two str
Contains(s, sub) ==
    \E i \in 1..(Len(s) - Len(sub) + 1) : SubSeq(s, i, i + Len(sub) - 1) = sub

\* s.split(sep)[-1] for a separator of one character
SplitLast(s, sep) ==
    LET at == {i \in 1..Len(s) : SubSeq(s, i, i) = sep}
        last == IF at = {} THEN 0 ELSE CHOOSE i \in at : \A j \in at : j <= i
    IN  SubSeq(s, last + 1, Len(s))

\* key in d and d[key], for a dict d
HasKey(d, key) == \E i \in 1..Len(d.value) : d.value[i][1] = key

GetItem(d, key) == d.value[CHOOSE i \in 1..Len(d.value) : d.value[i][1] = key][2]

\* str(n) for the integers of the arguments
IntStr(n) ==
    CASE n = 0 -> "0" [] n = 1 -> "1" [] n = 2 -> "2" [] n = 3 -> "3"
      [] n = 4 -> "4" [] n = 5 -> "5" [] n = 6 -> "6" [] n = 7 -> "7"
      [] n = 8 -> "8" [] n = 9 -> "9"

\* repr(v) and str(v) of a Python value (no string here holds a quote)
RECURSIVE py_repr(_)
py_repr(v) ==
    LET RECURSIVE join(_, _)
        join(parts, i) ==
            IF i > Len(parts) THEN ""
            ELSE (IF i > 1 THEN ", " ELSE "") \o parts[i] \o join(parts, i + 1)
    IN  CASE v.type = "str" -> "'" \o v.value \o "'"
          [] v.type = "int" -> IntStr(v.value)
          [] v.type = "NoneType" -> "None"
          [] v.type = "list" ->
                "[" \o join([i \in 1..Len(v.value) |-> py_repr(v.value[i])], 1) \o "]"
          [] v.type = "dict" ->
                "{" \o join([i \in 1..Len(v.value) |->
                                "'" \o v.value[i][1] \o "': " \o py_repr(v.value[i][2])], 1)
                    \o "}"

py_str(v) == IF v.type = "str" THEN v.value ELSE py_repr(v)

\* the argument texts a model can send that are JSON documents
ValidArguments ==
    { "{\"__arg1\": \"2+2\"}",
      "{\"query\": \"paris\", \"limit\": 5}",
      "{\"__arg1\": \"2+2\", \"precision\": 2}",
      "{}",
      "5",
      "\"2+2\"",
      "\"use __arg1\"",
      "[\"__arg1\"]",
      "null" }

\* and those that are not
InvalidArguments ==
    { "",
      "{\"__arg1\": \"2+2\"",
      "{'__arg1': '2+2'}",
      "2+2" }

\* a decoder that takes every undecodable text for the empty object
json_loads_lenient(s) ==
    CASE s = "{\"__arg1\": \"2+2\"}" ->
            [raised |-> FALSE, value |-> PyDict(<< <<"__arg1", PyStr("2+2")>> >>)]
      [] s = "{\"query\": \"paris\", \"limit\": 5}" ->
            [raised |-> FALSE,
             value |-> PyDict(<< <<"query", PyStr("paris")>>, <<"limit", PyInt(5)>> >>)]
      [] s = "{\"__arg1\": \"2+2\", \"precision\": 2}" ->
            [raised |-> FALSE,
             value |-> PyDict(<< <<"__arg1", PyStr("2+2")>>, <<"precision", PyInt(2)>> >>)]
      [] s = "5" -> [raised |-> FALSE, value |-> PyInt(5)]
      [] s = "\"2+2\"" -> [raised |-> FALSE, value |-> PyStr("2+2")]
      [] s = "\"use __arg1\"" -> [raised |-> FALSE, value |-> PyStr("use __arg1")]
      [] s = "[\"__arg1\"]" -> [raised |-> FALSE, value |-> PyList(<<PyStr("__arg1")>>)]
      [] s = "null" -> [raised |-> FALSE, value |-> PyNone]
      [] OTHER -> [raised |-> FALSE, value |-> PyDict(<<>>)]

\* line 51, json.loads on the argument texts: the decoded value, or
\* JSONDecodeError
json_loads(s) ==
    CASE s = "{\"__arg1\": \"2+2\"}" ->
            [raised |-> FALSE, value |-> PyDict(<< <<"__arg1", PyStr("2+2")>> >>)]
      [] s = "{\"query\": \"paris\", \"limit\": 5}" ->
            [raised |-> FALSE,
             value |-> PyDict(<< <<"query", PyStr("paris")>>, <<"limit", PyInt(5)>> >>)]
      [] s = "{\"__arg1\": \"2+2\", \"precision\": 2}" ->
            [raised |-> FALSE,
             value |-> PyDict(<< <<"__arg1", PyStr("2+2")>>, <<"precision", PyInt(2)>> >>)]
      [] s = "{}" -> [raised |-> FALSE, value |-> PyDict(<<>>)]
      [] s = "5" -> [raised |-> FALSE, value |-> PyInt(5)]
      [] s = "\"2+2\"" -> [raised |-> FALSE, value |-> PyStr("2+2")]
      [] s = "\"use __arg1\"" -> [raised |-> FALSE, value |-> PyStr("use __arg1")]
      [] s = "[\"__arg1\"]" -> [raised |-> FALSE, value |-> PyList(<<PyStr("__arg1")>>)]
      [] s = "null" -> [raised |-> FALSE, value |-> PyNone]
      [] OTHER -> [raised |-> TRUE, value |-> "JSONDecodeError"]

\* an unpacking that hands the decoded arguments on as they are
unpack_arg1_never(_tool_input) ==
    IF _tool_input.type \in {"int", "NoneType"}
    THEN [raised |-> TRUE, value |-> "TypeError"]
    ELSE [raised |-> FALSE, value |-> _tool_input]

\* lines 64-67: "__arg1" in _tool_input, then _tool_input["__arg1"], by
\* the type of the decoded value
unpack_arg1(_tool_input) ==
    CASE _tool_input.type = "dict" ->
            IF HasKey(_tool_input, "__arg1")
            THEN [raised |-> FALSE, value |-> GetItem(_tool_input, "__arg1")]
            ELSE [raised |-> FALSE, value |-> _tool_input]
      [] _tool_input.type = "str" ->
            IF Contains(_tool_input.value, "__arg1")
            THEN [raised |-> TRUE, value |-> "TypeError"]
            ELSE [raised |-> FALSE, value |-> _tool_input]
      [] _tool_input.type = "list" ->
            IF \E i \in 1..Len(_tool_input.value) :
                  /\ _tool_input.value[i].type = "str"
                  /\ _tool_input.value[i].value = "__arg1"
            THEN [raised |-> TRUE, value |-> "TypeError"]
            ELSE [raised |-> FALSE, value |-> _tool_input]
      [] OTHER -> [raised |-> TRUE, value |-> "TypeError"]

\* the grave accent of lines 54-55 and 70, a character that a string of
\* this language cannot hold: the apostrophe stands for it
grave == "'"

\* what a parser returns, and what it raises
_FunctionsAgentAction(tool, tool_input, log, message_log) ==
    [kind |-> "AgentAction", tool |-> tool, tool_input |-> tool_input,
     log |-> log, message_log |-> message_log]

ParsedAction(tool, tool_input, log) ==
    [kind |-> "AgentAction", tool |-> tool, tool_input |-> tool_input, log |-> log]

ParsedFinish(rv, log) ==
    [kind |-> "AgentFinish", return_values |-> rv, log |-> log]

Raised(kind, msg) == [kind |-> kind, msg |-> msg]

\* OpenAIFunctionsAgentOutputParser._parse_ai_message
_parse_ai_message(msg) ==
    IF msg.type # "AIMessage"
    THEN Raised("TypeError", "Expected an AI message got " \o msg.type)
    ELSE
    LET function_call ==
           IF "function_call" \in DOMAIN msg.additional_kwargs
           THEN msg.additional_kwargs["function_call"]
           ELSE <<>>
    IN  IF DOMAIN function_call = {}
        THEN ParsedFinish([k \in {"output"} |-> msg.content], msg.content)
        ELSE IF "name" \notin DOMAIN function_call
        THEN Raised("KeyError", "name")
        ELSE IF "arguments" \notin DOMAIN function_call
        THEN Raised("KeyError", "arguments")
        ELSE
        LET function_name == function_call["name"]
            loaded == json_loads(function_call["arguments"])
        IN  IF loaded.raised
            THEN Raised("OutputParserException",
                        "Could not parse tool input: {'name': '" \o function_name
                        \o "', 'arguments': '" \o function_call["arguments"]
                        \o "'} because the " \o grave \o "arguments" \o grave
                        \o " is not valid JSON.")
            ELSE
            LET unpacked == unpack_arg1(loaded.value) IN
            IF unpacked.raised
            THEN Raised(unpacked.value, "")
            ELSE
            LET tool_input == unpacked.value
                content_msg == IF msg.content # ""
                               THEN "responded: " \o msg.content \o "\n"
                               ELSE "\n"
                log == "\nInvoking: " \o grave \o function_name \o grave
                       \o " with " \o grave \o py_str(tool_input) \o grave
                       \o "\n" \o content_msg \o "\n"
            IN  _FunctionsAgentAction(function_name, tool_input, log, <<msg>>)

\* a last line that is the whole text
last_line_whole_text(txt) == txt

\* line 10: text.split("\n")[-1]
last_line(txt) == SplitLast(txt, "\n")

\* SelfAskOutputParser.parse
parse(txt) ==
    LET followup == <<"Follow up:", "Followup:">>
        followup_present ==
           \E i \in 1..Len(followup) : Contains(last_line(txt), followup[i])
        finish_string == "So the final answer is: "
        after_colon == SplitLast(txt, ":")
    IN  IF ~followup_present
        THEN IF ~Contains(last_line(txt), finish_string)
             THEN Raised("OutputParserException", "Could not parse output: " \o txt)
             ELSE ParsedFinish(
                     [k \in {"output"} |->
                         SubSeq(last_line(txt), Len(finish_string) + 1, Len(last_line(txt)))],
                     txt)
        ELSE IF after_colon = ""
        THEN Raised("IndexError", "string index out of range")
        ELSE ParsedAction("Intermediate Answer",
                          IF SubSeq(after_colon, 1, 1) = " "
                          THEN SubSeq(after_colon, 2, Len(after_colon))
                          ELSE after_colon,
                          txt)

\* the messages handed to _parse_ai_message
FunctionCalls ==
    { <<>>, [name |-> "calculator"], [arguments |-> "{}"] }
    \cup { [name |-> n, arguments |-> a] :
              n \in {"calculator", "search"},
              a \in ValidArguments \cup InvalidArguments }

Messages ==
    { [type |-> t, content |-> c, additional_kwargs |-> k] :
         t \in {"AIMessage", "HumanMessage"},
         c \in {"", "Final Answer: 4"},
         k \in {<<>>} \cup { [function_call |-> f] : f \in FunctionCalls } }

\* the texts handed to SelfAskOutputParser.parse: at most n pieces
Pieces ==
    { "Follow up:", "Followup:", "So the final answer is: ", "\n", " ", ":",
      "Paris" }

RECURSIVE TextsOf(_)
TextsOf(n) ==
    IF n = 0 THEN {""}
    ELSE LET shorter == TextsOf(n - 1) IN
         shorter \cup { t \o p : t \in shorter, p \in Pieces }

InitParsers ==
    /\ pc = "parse"
    /\ parsed = None
    /\ \/ /\ chain = "OpenAIFunctionsAgentOutputParser"
          /\ message \in Messages
          /\ self_ask_text = ""
       \/ /\ chain = "SelfAskOutputParser"
          /\ message = NoMessage
          /\ self_ask_text \in TextsOf(MaxPieces)
    /\ verbose = FALSE
    /\ events = <<>>
    /\ sink_raises = "never"
    /\ invocations = <<>>
    /\ prompt = None
    /\ graph = None
    /\ max_iterations = None
    /\ max_execution_time = None
    /\ return_intermediate_steps = FALSE
    /\ return_values = <<"output">>
    /\ fix_text_overridden = FALSE
    /\ max_action_repetition = None
    /\ max_iterations_per_trial = None
    /\ max_execution_time_per_trial = None
    /\ iterations = 0
    /\ time_elapsed = 0
    /\ policy_result = None
    /\ intermediate_steps = <<>>
    /\ agent_scratchpad = <<>>
    /\ full_output = <<>>
    /\ output = NoOutput
    /\ final_output = <<>>
    /\ exc = ""
    /\ model_calls = 0
    /\ tool_calls = 0
    /\ fix_attempts = 0
    /\ plan_calls = 0
    /\ plan_arg = <<>>
    /\ emitted = <<>>
    /\ observed = <<>>
    /\ trial_iterations = 0
    /\ reflexion_notes = 0

\* one call of _parse_ai_message
ParseAIMessage ==
    /\ chain = "OpenAIFunctionsAgentOutputParser"
    /\ pc = "parse"
    /\ parsed' = Some(_parse_ai_message(message))
    /\ pc' = "parsed"
    /\ UNCHANGED <<config, aux, standalone, events, message, self_ask_text,
                   intermediate_steps, iterations, agent_scratchpad,
                   full_output, output, final_output, exc, model_calls,
                   tool_calls, fix_attempts, plan_calls, plan_arg, emitted,
                   observed>>

\* one call of SelfAskOutputParser.parse
ParseSelfAsk ==
    /\ chain = "SelfAskOutputParser"
    /\ pc = "parse"
    /\ parsed' = Some(parse(self_ask_text))
    /\ pc' = "parsed"
    /\ UNCHANGED <<config, aux, standalone, events, message, self_ask_text,
                   intermediate_steps, iterations, agent_scratchpad,
                   full_output, output, final_output, exc, model_calls,
                   tool_calls, fix_attempts, plan_calls, plan_arg, emitted,
                   observed>>

NextParsers == ParseAIMessage \/ ParseSelfAsk

SpecParsers == InitParsers /\ [][NextParsers]_vars

----------------------------------------------------------------------------
(* Two invocations of one AgentExecutor, interleaved.  What _call keeps in
   local variables (lines 209-211, and the output of line 215) is a field of
   the invocation's own frame; what it reads through self is the shared
   configuration; the callback manager of get_callback_manager
   (callbacks/__init__.py, lines 8-10) is one object shared by all. *)

\* the model outputs that Agent._extract_tool_and_input parses
ParsedOutputs == {t \in LLMOutputs : _extract_tool_and_input(<<t>>) # None}

\* the outputs after which the loop goes round again
ContinuingOutputs ==
    {t \in ParsedOutputs :
        LET p == _extract_tool_and_input(<<t>>)[1] IN
            /\ p[1] # finish_tool_name
            /\ p[1] \in DOMAIN name_to_tool_map
                  => ~CallFunc(name_to_tool_map[p[1]], p[2]).raised}

\* what the model answers to one invocation, call after call
Scripts ==
    {<<>>} \cup {<<t>> : t \in ParsedOutputs}
           \cup {<<t, u>> : t \in ContinuingOutputs, u \in ParsedOutputs}

\* the frame of _call at its entry: lines 209-211
Frame(script) ==
    [script |-> script, pos |-> 1, pc |-> "while", intermediate_steps |-> <<>>,
     iterations |-> 0, output |-> NoOutput, final_output |-> <<>>, exc |-> ""]

\* lines 224-225 and 255-256, on the trace of one frame
AttachStepsOf(m, steps) ==
    IF return_intermediate_steps THEN ("intermediate_steps" :> steps) @@ m ELSE m

\* a write that lands in attributes of the executor: every frame sees it
StoreLocals_OnSelf(i, frame) ==
    [j \in DOMAIN invocations |->
        IF j = i THEN frame
        ELSE [invocations[j] EXCEPT !.intermediate_steps = frame.intermediate_steps,
                                    !.iterations = frame.iterations]]

\* lines 209-211, 252 and 253: intermediate_steps and iterations are local
\* variables of _call, so a write changes the writing invocation's frame only
StoreLocals(i, frame) == [invocations EXCEPT ![i] = frame]

InitTwo ==
    /\ chain = "AgentExecutor"
    /\ verbose \in BOOLEAN
    /\ events = <<>>
    /\ sink_raises = "never"
    /\ invocations \in [1..2 -> {Frame(s) : s \in Scripts}]
    /\ prompt = None
    /\ graph = None
    /\ message = NoMessage
    /\ self_ask_text = ""
    /\ parsed = None
    /\ max_execution_time = None
    /\ max_action_repetition = None
    /\ max_iterations_per_trial = None
    /\ max_execution_time_per_trial = None
    /\ time_elapsed = 0
    /\ policy_result = None
    /\ trial_iterations = 0
    /\ reflexion_notes = 0
    /\ observed = <<>>
    /\ max_iterations \in {None, Some(1), Some(MaxIterationsBound)}
    /\ return_intermediate_steps = TRUE
    /\ return_values = <<"output">>
    /\ fix_text_overridden = FALSE
    /\ pc = "two"
    /\ intermediate_steps = <<>>
    /\ iterations = 0
    /\ agent_scratchpad = <<>>
    /\ full_output = <<>>
    /\ output = NoOutput
    /\ final_output = <<>>
    /\ exc = ""
    /\ model_calls = 0
    /\ tool_calls = 0
    /\ fix_attempts = 0
    /\ plan_calls = 0
    /\ plan_arg = <<>>
    /\ emitted = <<>>

\* lines 213-215 for invocation i: the loop condition holds and agent.plan
\* returns the parsed model output
TwoPlan(i) ==
    /\ pc = "two"
    /\ LET f == invocations[i] IN
          /\ f.pc = "while"
          /\ _should_continue(f.iterations)
          /\ f.pos <= Len(f.script)
          /\ invocations' =
                StoreLocals(i, [f EXCEPT
                    !.pc = "dispatch",
                    !.pos = f.pos + 1,
                    !.output = PlanResult(_extract_tool_and_input(<<f.script[f.pos]>>),
                                          <<f.script[f.pos]>>)])
    /\ UNCHANGED <<config, parsing, prompt, graph, events, aux, observed, pc,
                   intermediate_steps, iterations, agent_scratchpad, full_output, output,
                   final_output, exc, model_calls, tool_calls, fix_attempts, plan_calls,
                   plan_arg, emitted>>

\* lines 254-257 for invocation i
TwoReturnStopped(i) ==
    /\ pc = "two"
    /\ LET f == invocations[i] IN
          /\ f.pc = "while"
          /\ ~_should_continue(f.iterations)
          /\ invocations' =
                StoreLocals(i, [f EXCEPT
                    !.pc = "STOPPED_BY_LIMIT",
                    !.final_output =
                        AttachStepsOf(return_stopped_response, f.intermediate_steps)])
    /\ UNCHANGED <<config, parsing, prompt, graph, events, aux, observed, pc,
                   intermediate_steps, iterations, agent_scratchpad, full_output, output,
                   final_output, exc, model_calls, tool_calls, fix_attempts, plan_calls,
                   plan_arg, emitted>>

\* lines 217-253 for invocation i: the dispatch of its parsed output, with
\* the notifications going to the one shared callback manager
TwoDispatch(i) ==
    /\ pc = "two"
    /\ LET f == invocations[i] IN
          /\ f.pc = "dispatch"
          /\ \/ /\ f.output.finish
                /\ invocations' =
                      StoreLocals(i, [f EXCEPT
                          !.pc = "FINISHED",
                          !.final_output =
                              AttachStepsOf(f.output.return_values, f.intermediate_steps)])
                /\ events' = IF verbose
                             THEN events \o <<on_tool_start("Finish"),
                                              on_tool_end(AGENT_FINISH_OBSERVATION)>>
                             ELSE events
             \/ /\ ~f.output.finish
                /\ f.output.tool \in DOMAIN name_to_tool_map
                /\ LET r == CallFunc(name_to_tool_map[f.output.tool], f.output.tool_input) IN
                      /\ invocations' =
                            IF r.raised
                            THEN StoreLocals(i, [f EXCEPT !.pc = "FAILED", !.exc = r.value])
                            ELSE StoreLocals(i, [f EXCEPT
                                     !.pc = "while",
                                     !.intermediate_steps =
                                         Append(f.intermediate_steps, <<f.output, r.value>>),
                                     !.iterations = f.iterations + 1])
                      /\ events' =
                            IF verbose
                            THEN events
                                 \o <<on_tool_start(ToolStartName(name_to_tool_map[f.output.tool]))>>
                                 \o (IF r.raised THEN <<>> ELSE <<on_tool_end(r.value)>>)
                            ELSE events
             \/ /\ ~f.output.finish
                /\ f.output.tool \notin DOMAIN name_to_tool_map
                /\ invocations' =
                      StoreLocals(i, [f EXCEPT
                          !.pc = "while",
                          !.intermediate_steps =
                              Append(f.intermediate_steps,
                                     <<f.output,
                                       f.output.tool \o " is not a valid tool, try another one.">>),
                          !.iterations = f.iterations + 1])
                /\ events' =
                      IF verbose
                      THEN events
                           \o <<on_tool_start("N/A"),
                                on_tool_end(f.output.tool
                                            \o " is not a valid tool, try another one.")>>
                      ELSE events
    /\ UNCHANGED <<config, parsing, prompt, graph, aux, observed, pc,
                   intermediate_steps, iterations, agent_scratchpad, full_output, output,
                   final_output, exc, model_calls, tool_calls, fix_attempts, plan_calls,
                   plan_arg, emitted>>

NextTwo == \E i \in 1..2 : TwoPlan(i) \/ TwoReturnStopped(i) \/ TwoDispatch(i)

SpecTwo == InitTwo /\ [][NextTwo]_vars

----------------------------------------------------------------------------
(* The construction of an agent from a prompt: Agent.validate_prompt
   (agent.py, lines 96-112), the root validator that runs when an Agent is
   constructed, and create_openai_tools_agent (openai_tools/base.py) *)

\* no loop is running: the state of _call that construction does not touch
NoLoop ==
    /\ verbose = FALSE
    /\ events = <<>>
    /\ sink_raises = "never"
    /\ message = NoMessage
    /\ self_ask_text = ""
    /\ parsed = None
    /\ max_iterations = None
    /\ max_execution_time = None
    /\ max_action_repetition = None
    /\ max_iterations_per_trial = None
    /\ max_execution_time_per_trial = None
    /\ return_intermediate_steps = FALSE
    /\ return_values = <<"output">>
    /\ fix_text_overridden = FALSE
    /\ time_elapsed = 0
    /\ policy_result = None
    /\ trial_iterations = 0
    /\ reflexion_notes = 0
    /\ observed = <<>>
    /\ intermediate_steps = <<>>
    /\ iterations = 0
    /\ agent_scratchpad = <<>>
    /\ full_output = <<>>
    /\ output = NoOutput
    /\ final_output = <<>>
    /\ exc = ""
    /\ model_calls = 0
    /\ tool_calls = 0
    /\ fix_attempts = 0
    /\ plan_calls = 0
    /\ plan_arg = <<>>
    /\ emitted = <<>>

PromptVariables == {"input", "agent_scratchpad", "chat_history"}

\* the input_variables lists: each variable at most once, in any order
InputVariableLists ==
    {l \in UNION {[1..n -> PromptVariables] : n \in 0..Cardinality(PromptVariables)} :
        \A i, j \in DOMAIN l : i # j => l[i] # l[j]}

\* a template text with one placeholder for each input variable
RECURSIVE Placeholders(_)
Placeholders(l) ==
    IF l = <<>> THEN "Begin!"
    ELSE "{" \o l[1] \o "}\n" \o Placeholders(Tail(l))

\* a prompt of one of the template classes; ChatPromptTemplate keeps its
\* text in messages, neither in template nor in suffix
Prompt(type, l) ==
    [type |-> type, input_variables |-> l,
     template |-> IF type = "PromptTemplate" THEN Placeholders(l) ELSE "",
     suffix |-> IF type = "FewShotPromptTemplate" THEN Placeholders(l) ELSE ""]

InitPrompt ==
    /\ NoLoop
    /\ chain \in {"Agent", "create_openai_tools_agent"}
    /\ pc = "construct"
    /\ prompt \in {Prompt(type, l) :
                      type \in {"PromptTemplate", "FewShotPromptTemplate", "ChatPromptTemplate"},
                      l \in InputVariableLists}
    /\ invocations = <<>>
    /\ graph = None

\* a validator that lets the prompt through as it is
validate_prompt_accepting ==
    /\ chain = "Agent"
    /\ pc = "construct"
    /\ pc' = "constructed"
    /\ UNCHANGED <<config, parsing, standalone, events, aux, observed, intermediate_steps,
                   iterations, agent_scratchpad, full_output, output, final_output, exc,
                   model_calls, tool_calls, fix_attempts, plan_calls, plan_arg, emitted>>

\* Agent.validate_prompt, lines 96-112
validate_prompt ==
    /\ chain = "Agent"
    /\ pc = "construct"
    /\ IF "agent_scratchpad" \notin Range(prompt.input_variables)
       THEN LET appended == [prompt EXCEPT
                                !.input_variables = Append(@, "agent_scratchpad")]
            IN  CASE prompt.type = "PromptTemplate" ->
                       /\ prompt' = [appended EXCEPT
                                        !.template = @ \o "\n{agent_scratchpad}"]
                       /\ pc' = "constructed"
                       /\ exc' = exc
                  [] prompt.type = "FewShotPromptTemplate" ->
                       /\ prompt' = [appended EXCEPT
                                        !.suffix = @ \o "\n{agent_scratchpad}"]
                       /\ pc' = "constructed"
                       /\ exc' = exc
                  [] OTHER ->
                       /\ prompt' = appended
                       /\ pc' = "FAILED"
                       /\ exc' = "ValueError"
       ELSE /\ pc' = "constructed"
            /\ UNCHANGED <<prompt, exc>>
    /\ UNCHANGED <<config, parsing, invocations, graph, events, aux, observed,
                   intermediate_steps, iterations, agent_scratchpad, full_output, output,
                   final_output, model_calls, tool_calls, fix_attempts, plan_calls,
                   plan_arg, emitted>>

\* create_openai_tools_agent, lines 75-94
create_openai_tools_agent ==
    /\ chain = "create_openai_tools_agent"
    /\ pc = "construct"
    /\ LET missing_vars == {"agent_scratchpad"} \ Range(prompt.input_variables) IN
          IF missing_vars # {}
          THEN pc' = "FAILED" /\ exc' = "ValueError"
          ELSE pc' = "constructed" /\ exc' = exc
    /\ UNCHANGED <<config, parsing, standalone, events, aux, observed, intermediate_steps,
                   iterations, agent_scratchpad, full_output, output, final_output,
                   model_calls, tool_calls, fix_attempts, plan_calls, plan_arg, emitted>>

NextPrompt == validate_prompt \/ create_openai_tools_agent

SpecPrompt == InitPrompt /\ [][NextPrompt]_vars

----------------------------------------------------------------------------
(* An invocation in which every model output parses and every model call
   and tool call returns: the runs the loop's iteration bound is stated for *)

\* the model outputs that parse and whose dispatch returns: a Finish, an
\* unknown tool, or a registered tool whose function returns
ReturningOutputs ==
    {t \in ParsedOutputs :
        LET p == _extract_tool_and_input(<<t>>)[1] IN
            (p[1] # finish_tool_name /\ p[1] \in DOMAIN name_to_tool_map)
                => ~CallFunc(name_to_tool_map[p[1]], p[2]).raised}

\* plan, lines 65-66: the model call returns a text that parses
PredictParsed ==
    /\ chain = "AgentExecutor"
    /\ pc = "predict"
    /\ model_calls < MaxModelCalls
    /\ \E text \in ReturningOutputs : AfterPredict(<<text>>)
    /\ model_calls' = model_calls + 1
    /\ UNCHANGED <<config, parsing, standalone, events, aux, observed, intermediate_steps,
                   iterations, agent_scratchpad, final_output, exc, tool_calls,
                   fix_attempts, plan_calls, plan_arg>>

NextReturning ==
    \/ EnterPlan
    \/ ReturnStopped
    \/ PredictParsed
    \/ ReturnFinish
    \/ ToolReturns
    \/ InvalidTool

\* _call is sequential code: while a step is possible, the next one is taken
SpecReturning == Init /\ [][NextReturning]_vars /\ WF_vars(NextReturning)

----------------------------------------------------------------------------
(* Graph (libs/core/langchain_core/runnables/graph.py): nodes keyed by id and
   a list of edges, each a pair of node ids *)

MaxEdges == 3

NodeIds == {"a", "b", "c"}

\* the edge lists add_edge can build over the given nodes (lines 168-176:
\* both ends are in the graph; the same edge may be added again)
EdgeLists(nodes) == UNION {[1..n -> nodes \X nodes] : n \in 0..MaxEdges}

\* Graph.remove_node
remove_node(g, id) ==
    [nodes |-> g.nodes \ {id},
     edges |-> SelectSeq(g.edges, LAMBDA edge : edge[1] # id /\ edge[2] # id)]

\* Graph.first_node: Optional[node id]
first_node(g) ==
    LET targets == {g.edges[i][2] : i \in DOMAIN g.edges}
        found == {id \in g.nodes : id \notin targets}
    IN  IF Cardinality(found) = 1 THEN Some(CHOOSE id \in found : TRUE) ELSE None

\* Graph.trim_first_node
trim_first_node(g) ==
    IF /\ first_node(g) # None
       /\ \/ Cardinality(g.nodes) = 1
          \/ Len(SelectSeq(g.edges, LAMBDA edge : edge[1] = first_node(g)[1])) = 1
    THEN remove_node(g, first_node(g)[1])
    ELSE [nodes |-> g.nodes, edges |-> g.edges]

InitGraph ==
    /\ NoLoop
    /\ chain = "Graph"
    /\ pc = "trim"
    /\ \E nodes \in SUBSET NodeIds :
          \E edges \in EdgeLists(nodes) :
             graph = [nodes |-> nodes, edges |-> edges,
                      before |-> [nodes |-> nodes, edges |-> edges]]
    /\ invocations = <<>>
    /\ prompt = None

TrimFirstNode ==
    /\ chain = "Graph"
    /\ pc = "trim"
    /\ pc' = "trimmed"
    /\ graph' = [graph EXCEPT !.nodes = trim_first_node(graph).nodes,
                              !.edges = trim_first_node(graph).edges]
    /\ UNCHANGED <<config, parsing, invocations, prompt, events, aux, observed,
                   intermediate_steps, iterations, agent_scratchpad, full_output, output,
                   final_output, exc, model_calls, tool_calls, fix_attempts, plan_calls,
                   plan_arg, emitted>>

NextGraph == TrimFirstNode

SpecGraph == InitGraph /\ [][NextGraph]_vars

----------------------------------------------------------------------------
(* Helpers of the properties *)

registered == {tools[i].name : i \in 1..Len(tools)}

ReturnDirect(name) == \E i \in 1..Len(tools) : tools[i].name = name /\ tools[i].return_direct

Terminal == pc \in {"FINISHED", "STOPPED_BY_LIMIT", "FAILED"}

StoppedMessage == "Agent stopped due to max iterations."

InvalidToolObservation(name) == name \o " is not a valid tool, try another one."

\* s is an initial segment of t
IsPrefix(s, t) == Len(s) <= Len(t) /\ SubSeq(t, 1, Len(s)) = s

\* the text of one step: the log, a newline and the observation prefix, the
\* observation, a newline and the thinking prefix
StepText(step) ==
    step[1].log \o <<"\nObservation: ", step[2], "\nThought: ">>

\* the texts of the steps one after the other, first step first
RECURSIVE ConcatSteps(_)
ConcatSteps(steps) ==
    IF steps = <<>> THEN <<>> ELSE StepText(Head(steps)) \o ConcatSteps(Tail(steps))

----------------------------------------------------------------------------
(* C1: when the model emits k Actions naming registered tools and then a   *)
(* Finish, _call returns the Finish's return values and the trace holds    *)
(* exactly k steps, step i being (the i-th emitted Action, the observation *)
(* its tool function returned for the Action's input), in emission order.  *)
C1_ScriptedRun ==
    (pc = "FINISHED" /\ \A i \in 1..Len(emitted) : emitted[i].tool \in registered)
    => /\ output.finish
       /\ \A k \in DOMAIN output.return_values :
             k \in DOMAIN final_output /\ final_output[k] = output.return_values[k]
       /\ final_output["output"] = output.tool_input
       /\ Len(intermediate_steps) = Len(emitted)
       /\ \A i \in 1..Len(emitted) :
             /\ intermediate_steps[i][1] = emitted[i]
             /\ intermediate_steps[i][2] =
                   CallFunc((CHOOSE t \in Range(tools) : t.name = emitted[i].tool).func,
                            emitted[i].tool_input).value

\* the calculator scenario, with the Action emitted twice before the Finish
C1_Witness ==
    /\ pc = "FINISHED"
    /\ Len(emitted) = 2
    /\ \A i \in 1..2 : emitted[i].tool = "calculator" /\ emitted[i].tool_input = "2+2"
    /\ intermediate_steps[1][2] = "4"
    /\ intermediate_steps[2][2] = "4"
    /\ final_output["output"] = "4"

(* C2: with max_iterations = N the invocation dispatches at most N actions *)
(* (the trace never grows beyond N), and with N = 0 it ends in the         *)
(* stopped-response without any model call or tool invocation.             *)
C2_IterationBound ==
    max_iterations # None =>
       /\ Len(intermediate_steps) <= max_iterations[1]
       /\ Len(emitted) <= max_iterations[1]
       /\ tool_calls <= max_iterations[1]
       /\ max_iterations[1] = 0 =>
             /\ tool_calls = 0 /\ model_calls = 0
             /\ pc \in {"while", "STOPPED_BY_LIMIT"}
             /\ pc = "STOPPED_BY_LIMIT" =>
                   \A k \in Range(return_values) : final_output[k] = StoppedMessage

C2_Witness ==
    /\ max_iterations = Some(2)
    /\ pc = "STOPPED_BY_LIMIT"
    /\ Len(intermediate_steps) = 2
    /\ tool_calls = 2

C2_WitnessZero ==
    /\ max_iterations = Some(0)
    /\ pc = "STOPPED_BY_LIMIT"

(* C3: the stopping policy is false exactly when a configured bound is    *)
(* reached: max_iterations is set and iterations >= max_iterations, or the *)
(* maximum wall-clock time is set and the elapsed time >= it.              *)
C3_PolicyExact ==
    policy_result # None =>
       (policy_result[1] = FALSE
          <=> \/ (max_iterations # None /\ iterations >= max_iterations[1])
              \/ (max_execution_time # None /\ time_elapsed >= max_execution_time[1]))

(* C4: when the loop ends because the stopping policy is false and no      *)
(* Finish was produced, the returned mapping gives every key of            *)
(* agent.return_values the canned stopped message, and has no other key    *)
(* than intermediate_steps (when return_intermediate_steps is set).        *)
C4_StoppedResponse ==
    pc = "STOPPED_BY_LIMIT" =>
       /\ ~_should_continue(iterations)
       /\ \A k \in Range(return_values) :
             k \in DOMAIN final_output /\ final_output[k] = StoppedMessage
       /\ DOMAIN final_output =
             Range(return_values) \cup
                (IF return_intermediate_steps THEN {"intermediate_steps"} ELSE {})

C4_Witness ==
    /\ pc = "STOPPED_BY_LIMIT"
    /\ return_values = <<"output", "sources">>
    /\ Len(intermediate_steps) = 1
    /\ final_output["sources"] = StoppedMessage

(* C5: once an Action naming a return_direct tool has been dispatched the  *)
(* invocation is finished, that step is the last one, the returned output  *)
(* is the tool's observation and no model call follows the dispatch.       *)
C5_ReturnDirectFinishes ==
    \A i \in 1..Len(intermediate_steps) :
       ReturnDirect(intermediate_steps[i][1].tool) =>
          /\ i = Len(intermediate_steps)
          /\ pc = "FINISHED"
          /\ final_output["output"] = intermediate_steps[i][2]
          /\ plan_calls = i

(* C6: dispatching an Action whose tool is not in the registry raises      *)
(* nothing and calls no tool function: the step (Action, invalid-tool      *)
(* observation) is appended and the invocation is back at the loop head,   *)
(* still running; every later model call has the observation in its        *)
(* scratchpad.                                                             *)
C6_InvalidToolRecovers ==
    /\ [][(pc = "dispatch" /\ ~output.finish /\ output.tool \notin registered)
            => /\ pc' = "while"
               /\ exc' = ""
               /\ tool_calls' = tool_calls
               /\ intermediate_steps' =
                     Append(intermediate_steps,
                            <<output, InvalidToolObservation(output.tool)>>)]_vars
    /\ [](pc \in {"predict", "fix"} =>
            \A i \in 1..Len(intermediate_steps) :
               \E j \in 1..Len(agent_scratchpad) :
                  agent_scratchpad[j] = intermediate_steps[i][2])

C6_Witness ==
    /\ pc = "predict"
    /\ Len(intermediate_steps) = 1
    /\ intermediate_steps[1][2] = "wikipedia is not a valid tool, try another one."
    /\ tool_calls = 0
    /\ exc = ""

(* C7: a tool function that raises never makes the invocation fail: every  *)
(* tool call is recorded as a step and the loop goes on.                   *)
C7_ToolErrorBecomesObservation ==
    /\ exc \notin {"ZeroDivisionError", "TypeError"}
    /\ tool_calls <= Len(intermediate_steps)

(* C8: once a model call has raised, the invocation has failed: it made   *)
(* no further model call or tool call and returned nothing.                *)
C8_ModelErrorIsFatal ==
    /\ [](exc = "ModelInvocationError" => (pc = "FAILED" /\ final_output = <<>>))
    /\ [][exc = "ModelInvocationError" =>
            UNCHANGED <<pc, model_calls, tool_calls, plan_calls, final_output,
                        intermediate_steps>>]_vars

C8_Witness ==
    /\ pc = "FAILED"
    /\ exc = "ModelInvocationError"
    /\ Len(intermediate_steps) = 1
    /\ model_calls = 2

(* C9: the fix-text loop of one plan makes at most 3 corrective model      *)
(* calls before a parse failure is reported.                               *)
C9_FixTextBounded == fix_attempts <= 3

C10_WitnessReflexion ==
    /\ chain = "ReflexionChain"
    /\ pc = "predict"
    /\ plan_calls = 2
    /\ Len(observed) = 1
    /\ reflexion_notes = 1
    /\ plan_arg = <<>>

C11_WitnessReflexion ==
    /\ chain = "ReflexionChain"
    /\ pc = "while"
    /\ reflexion_notes = 1
    /\ Len(observed) = 1
    /\ intermediate_steps = <<>>

(* C12: the scratchpad of the first model call of a plan is the            *)
(* concatenation over the trace, in step order, of the action's log, a     *)
(* newline and the observation prefix, the observation, a newline and the  *)
(* thinking prefix; it is empty for an empty trace and is determined by    *)
(* the trace alone.                                                        *)
C12_ScratchpadOfTrace ==
    pc = "predict" =>
       /\ agent_scratchpad = ConcatSteps(intermediate_steps)
       /\ intermediate_steps = <<>> => agent_scratchpad = <<>>

\* the scratchpad of the third plan: a calculator step whose log carries a
\* fixed text, then an invalid-tool step
C12_Witness ==
    /\ pc = "predict"
    /\ Len(intermediate_steps) = 2
    /\ agent_scratchpad =
          << "I am not sure.", "\nAction: ", "Action: calculator[2+2]",
             "\nObservation: ", "4", "\nThought: ",
             "Action: wikipedia[2+2]",
             "\nObservation: ", "wikipedia is not a valid tool, try another one.",
             "\nThought: " >>

(* C13: for a message whose function_call has a name and arguments that    *)
(* are a JSON document, the parser returns one Action whose tool is the    *)
(* function name and whose tool_input comes from the decoded arguments,    *)
(* whatever the content of the message; it never returns a Finish.         *)
C13_FunctionCallIsAction ==
    (/\ chain = "OpenAIFunctionsAgentOutputParser"
     /\ parsed # None
     /\ message.type = "AIMessage"
     /\ "function_call" \in DOMAIN message.additional_kwargs
     /\ DOMAIN message.additional_kwargs["function_call"] = {"name", "arguments"}
     /\ message.additional_kwargs["function_call"]["arguments"] \in ValidArguments)
    => /\ parsed[1].kind = "AgentAction"
       /\ parsed[1].tool = message.additional_kwargs["function_call"]["name"]

(* C14: for a message whose function_call arguments are not a JSON         *)
(* document the parser raises OutputParserException: it returns neither an *)
(* Action (with a default input or any other) nor a Finish.                *)
C14_InvalidJsonRaises ==
    (/\ chain = "OpenAIFunctionsAgentOutputParser"
     /\ parsed # None
     /\ message.type = "AIMessage"
     /\ "function_call" \in DOMAIN message.additional_kwargs
     /\ DOMAIN message.additional_kwargs["function_call"] = {"name", "arguments"}
     /\ message.additional_kwargs["function_call"]["arguments"] \in InvalidArguments)
    => /\ parsed[1].kind = "OutputParserException"
       /\ parsed[1].kind \notin {"AgentAction", "AgentFinish"}

\* empty arguments, in a message whose content reads as a final answer
C14_Witness ==
    /\ chain = "OpenAIFunctionsAgentOutputParser"
    /\ parsed # None
    /\ message.type = "AIMessage"
    /\ message.content = "Final Answer: 4"
    /\ "function_call" \in DOMAIN message.additional_kwargs
    /\ message.additional_kwargs["function_call"] = [name |-> "calculator", arguments |-> ""]
    /\ parsed[1].kind = "OutputParserException"

(* C15: when the decoded arguments are an object with the key __arg1, the  *)
(* Action's tool_input is the value stored under __arg1 and not the        *)
(* object; when the object has no such key, tool_input is the decoded      *)
(* object unchanged.                                                       *)
C15_LegacyArgUnpacked ==
    (/\ chain = "OpenAIFunctionsAgentOutputParser"
     /\ parsed # None
     /\ message.type = "AIMessage"
     /\ "function_call" \in DOMAIN message.additional_kwargs
     /\ DOMAIN message.additional_kwargs["function_call"] = {"name", "arguments"}
     /\ message.additional_kwargs["function_call"]["arguments"] \in ValidArguments
     /\ json_loads(message.additional_kwargs["function_call"]["arguments"]).value.type = "dict")
    => LET decoded == json_loads(message.additional_kwargs["function_call"]["arguments"]).value
           legacy == {i \in 1..Len(decoded.value) : decoded.value[i][1] = "__arg1"}
       IN  /\ parsed[1].kind = "AgentAction"
           /\ legacy # {} =>
                 /\ \E i \in legacy : parsed[1].tool_input = decoded.value[i][2]
                 /\ parsed[1].tool_input.type # "dict"
           /\ legacy = {} => parsed[1].tool_input = decoded

\* the one-key object {"__arg1": "2+2"} becomes the plain string 2+2
C15_Witness ==
    /\ chain = "OpenAIFunctionsAgentOutputParser"
    /\ parsed # None
    /\ message.type = "AIMessage"
    /\ "function_call" \in DOMAIN message.additional_kwargs
    /\ message.additional_kwargs["function_call"] =
          [name |-> "calculator", arguments |-> "{\"__arg1\": \"2+2\"}"]
    /\ parsed[1].kind = "AgentAction"
    /\ parsed[1].tool_input = PyStr("2+2")

\* an object without __arg1 is handed on whole
C15_WitnessObject ==
    /\ chain = "OpenAIFunctionsAgentOutputParser"
    /\ parsed # None
    /\ message.type = "AIMessage"
    /\ "function_call" \in DOMAIN message.additional_kwargs
    /\ message.additional_kwargs["function_call"] =
          [name |-> "search", arguments |-> "{\"query\": \"paris\", \"limit\": 5}"]
    /\ parsed[1].kind = "AgentAction"
    /\ parsed[1].tool_input.type = "dict"
    /\ Len(parsed[1].tool_input.value) = 2

(* C16: SelfAskOutputParser.parse raises OutputParserException, with the   *)
(* raw text in its message, exactly when the last line of the text (what   *)
(* follows the last newline) contains none of "Follow up:", "Followup:"    *)
(* and "So the final answer is: "; a marker on an earlier line does not    *)
(* count.                                                                  *)
C16_SelfAskParseError ==
    (chain = "SelfAskOutputParser" /\ parsed # None) =>
       LET n == Len(self_ask_text)
           k == CHOOSE k \in 0..n :
                   /\ k = 0 \/ SubSeq(self_ask_text, k, k) = "\n"
                   /\ \A j \in (k + 1)..n : SubSeq(self_ask_text, j, j) # "\n"
           last == SubSeq(self_ask_text, k + 1, n)
           marked == \E m \in {"Follow up:", "Followup:", "So the final answer is: "} :
                        \E i \in 1..Len(last) : \E j \in i..Len(last) : SubSeq(last, i, j) = m
       IN  /\ parsed[1].kind = "OutputParserException" <=> ~marked
           /\ parsed[1].kind = "OutputParserException" =>
                 parsed[1].msg = "Could not parse output: " \o self_ask_text

\* a follow-up marker on the first line only
C16_Witness ==
    /\ chain = "SelfAskOutputParser"
    /\ parsed # None
    /\ self_ask_text = "Follow up:" \o "\n" \o "Paris"
    /\ parsed[1].kind = "OutputParserException"

(* C17: on a Finish _call returns the Finish's return values, and on a     *)
(* stop the stopped-response; in both cases the returned mapping has the   *)
(* key intermediate_steps, holding the whole trace, exactly when           *)
(* return_intermediate_steps is set.                                       *)
C17_TraceAttached ==
    pc \in {"FINISHED", "STOPPED_BY_LIMIT"} =>
       /\ "intermediate_steps" \in DOMAIN final_output <=> return_intermediate_steps
       /\ return_intermediate_steps =>
             final_output["intermediate_steps"] = intermediate_steps
       /\ pc = "FINISHED" =>
             /\ final_output = output.return_values
             /\ DOMAIN final_output \ {"intermediate_steps"} = {"output"}
             /\ final_output["output"] = output.tool_input
       /\ pc = "STOPPED_BY_LIMIT" =>
             /\ DOMAIN final_output \ {"intermediate_steps"} = Range(return_values)
             /\ \A k \in Range(return_values) : final_output[k] = StoppedMessage

\* a Finish after two steps, returned with the trace
C17_Witness ==
    /\ pc = "FINISHED"
    /\ return_intermediate_steps
    /\ Len(intermediate_steps) = 2
    /\ final_output["output"] = "4"
    /\ final_output["intermediate_steps"] = intermediate_steps

\* a stop after one step, returned with and without the trace
C17_WitnessStopped ==
    /\ pc = "STOPPED_BY_LIMIT"
    /\ return_intermediate_steps
    /\ Len(final_output["intermediate_steps"]) = 1

C17_WitnessWithout ==
    /\ pc = "FINISHED"
    /\ ~return_intermediate_steps
    /\ Len(intermediate_steps) = 1
    /\ DOMAIN final_output = {"output"}

C19_ZeroTimeStops ==
    max_execution_time = Some(0) =>
       /\ model_calls = 0 /\ tool_calls = 0
       /\ pc \in {"while", "STOPPED_BY_LIMIT"}
       /\ pc = "STOPPED_BY_LIMIT" =>
             \A k \in Range(return_values) :
                k \in DOMAIN final_output /\ final_output[k] = StoppedMessage

(* C20: with the executor reporting to its callback sink (verbose), every  *)
(* tool dispatch has emitted a tool-start event and, once the dispatch is  *)
(* over (at the next model call or at the end of the invocation), a        *)
(* tool-end or tool-error event after it: the events are start, end,       *)
(* start, end, ..., no start is left unmatched and no end comes without    *)
(* its start.                                                              *)
C20_ToolEventsMatched ==
    (verbose /\ pc # "dispatch") =>
       /\ Len(events) >= 2 * tool_calls
       /\ Len(events) % 2 = 0
       /\ \A i \in 1..Len(events) :
             IF i % 2 = 1
             THEN events[i].event = "on_tool_start"
             ELSE events[i].event \in {"on_tool_end", "on_tool_error"}

\* C21: a callback sink that raises while being notified of a tool start or a
\* tool end does not abort the loop: no invocation ends with the sink's
\* exception, it ends as it does with a sink that never fails.
C21_SinkFailureHarmless == ~(pc = "FAILED" /\ exc = "CallbackError")

\* what _call returns, or where it waits for the model, when it runs alone
\* and the model answers with the given script
RECURSIVE RunAlone(_, _, _)
RunAlone(script, steps, n) ==
    IF ~_should_continue(n)
    THEN [pc |-> "STOPPED_BY_LIMIT", intermediate_steps |-> steps, iterations |-> n,
          final_output |-> AttachStepsOf(return_stopped_response, steps), exc |-> ""]
    ELSE IF n + 1 > Len(script)
    THEN [pc |-> "while", intermediate_steps |-> steps, iterations |-> n,
          final_output |-> <<>>, exc |-> ""]
    ELSE LET out == PlanResult(_extract_tool_and_input(<<script[n + 1]>>), <<script[n + 1]>>)
         IN  IF out.finish
             THEN [pc |-> "FINISHED", intermediate_steps |-> steps, iterations |-> n,
                   final_output |-> AttachStepsOf(out.return_values, steps), exc |-> ""]
             ELSE IF out.tool \in registered
             THEN LET r == CallFunc(name_to_tool_map[out.tool], out.tool_input) IN
                  IF r.raised
                  THEN [pc |-> "FAILED", intermediate_steps |-> steps, iterations |-> n,
                        final_output |-> <<>>, exc |-> r.value]
                  ELSE RunAlone(script, Append(steps, <<out, r.value>>), n + 1)
             ELSE RunAlone(script, Append(steps, <<out, InvalidToolObservation(out.tool)>>),
                           n + 1)

\* an invocation that has returned, raised, or waits for a model answer
\* that its script does not hold
AtRest(f) ==
    \/ f.pc \in {"FINISHED", "STOPPED_BY_LIMIT", "FAILED"}
    \/ f.pc = "while" /\ _should_continue(f.iterations) /\ f.pos > Len(f.script)

ResultOf(f) ==
    [pc |-> f.pc, intermediate_steps |-> f.intermediate_steps, iterations |-> f.iterations,
     final_output |-> f.final_output, exc |-> f.exc]

C22_EachAsAlone ==
    \A i \in DOMAIN invocations :
        AtRest(invocations[i])
            => ResultOf(invocations[i]) = RunAlone(invocations[i].script, <<>>, 0)

C22_ConfigurationKept ==
    /\ config' = config
    /\ \A i \in DOMAIN invocations : invocations'[i].script = invocations[i].script

\* C22: two invocations of one AgentExecutor, interleaved at arbitrary
\* points, each end with the trace, the iteration count and the result they
\* have when run alone, and no step changes the executor's configuration.
C22_Independent == []C22_EachAsAlone /\ [][C22_ConfigurationKept]_vars

\* both invocations have gone round the loop with different traces, their
\* steps interleaved, and have returned
C22_Witness ==
    /\ pc = "two"
    /\ invocations[1].pc = "FINISHED"
    /\ invocations[2].pc = "FINISHED"
    /\ Len(invocations[1].intermediate_steps) = 1
    /\ Len(invocations[2].intermediate_steps) = 1
    /\ invocations[1].intermediate_steps # invocations[2].intermediate_steps
    /\ Len(events) = 8
    /\ events[1] = on_tool_start(ToolStartName("eval"))
    /\ events[3] = on_tool_start("N/A")
    /\ events[5] = on_tool_start("Finish")

HasPlaceholder(p) ==
    /\ "agent_scratchpad" \in Range(p.input_variables)
    /\ p.type = "PromptTemplate" => Contains(p.template, "{agent_scratchpad}")
    /\ p.type = "FewShotPromptTemplate" => Contains(p.suffix, "{agent_scratchpad}")

C23_Lacking == pc = "construct" /\ "agent_scratchpad" \notin Range(prompt.input_variables)

\* C23: constructing an agent whose prompt lacks the agent_scratchpad
\* placeholder fails with an exception; such a prompt is never accepted.
C23_MissingPlaceholderFails ==
    [][C23_Lacking => pc' = "FAILED" /\ exc' = "ValueError"]_vars

C23_RepairedOrRefused ==
    C23_Lacking =>
        IF chain = "Agent" /\ prompt.type \in {"PromptTemplate", "FewShotPromptTemplate"}
        THEN /\ pc' = "constructed"
             /\ prompt'.input_variables = Append(prompt.input_variables, "agent_scratchpad")
             /\ HasPlaceholder(prompt')
        ELSE pc' = "FAILED" /\ exc' = "ValueError"

\* C23 (amended): create_openai_tools_agent, and Agent for a prompt that is
\* neither a PromptTemplate nor a FewShotPromptTemplate, fail with ValueError
\* on a prompt without the placeholder; Agent repairs a PromptTemplate or a
\* FewShotPromptTemplate by appending the placeholder, so no constructed
\* agent has a prompt without it.
C23_NeverWithoutPlaceholder ==
    /\ [][C23_RepairedOrRefused]_vars
    /\ [](pc = "constructed" => HasPlaceholder(prompt))

\* an Agent was constructed from a PromptTemplate that came without the
\* placeholder
C23_Witness ==
    /\ chain = "Agent"
    /\ pc = "constructed"
    /\ prompt.type = "PromptTemplate"
    /\ prompt.input_variables = <<"input", "agent_scratchpad">>
    /\ prompt.template = "{input}\nBegin!\n{agent_scratchpad}"

\* a construction was refused
C23_WitnessRefused ==
    /\ chain = "create_openai_tools_agent"
    /\ pc = "FAILED"
    /\ exc = "ValueError"
    /\ prompt.input_variables = <<"input">>

C24_UnknownDispatch == pc = "dispatch" /\ ~output.finish /\ output.tool \notin registered

C24_OnlyStepAndCounter ==
    C24_UnknownDispatch =>
        /\ intermediate_steps' =
              Append(intermediate_steps, <<output, InvalidToolObservation(output.tool)>>)
        /\ iterations' = iterations + 1
        /\ events' = IF verbose
                     THEN events \o <<on_tool_start("N/A"),
                                      on_tool_end(InvalidToolObservation(output.tool))>>
                     ELSE events
        /\ UNCHANGED <<config, output, final_output, exc, model_calls, tool_calls,
                       agent_scratchpad, full_output, plan_calls, emitted>>

C24_SameObservation ==
    \A i, j \in DOMAIN intermediate_steps :
        /\ intermediate_steps[i][1].tool \notin registered
        /\ intermediate_steps[i][1].tool = intermediate_steps[j][1].tool
        => intermediate_steps[i][2] = intermediate_steps[j][2]

\* C24: dispatching the same unknown tool name twice yields the same
\* observation text both times, and a dispatch of an unknown tool changes
\* nothing but the trace (one step appended) and the iteration counter (the
\* notifications of a verbose executor aside).
C24_UnknownToolIdempotent == []C24_SameObservation /\ [][C24_OnlyStepAndCounter]_vars

\* the same unknown tool was dispatched twice in one invocation
C24_Witness ==
    /\ Len(intermediate_steps) = 2
    /\ iterations = 2
    /\ intermediate_steps[1][1].tool = "wikipedia"
    /\ intermediate_steps[2][1].tool = "wikipedia"
    /\ intermediate_steps[2][2] = "wikipedia is not a valid tool, try another one."

\* C25: for every input the output parsers return an Action or a Finish or
\* raise ParseError (OutputParserException): SelfAskOutputParser.parse on any
\* text and the function-call parser on any AI message let no other kind of
\* exception escape.
C25_OnlyParseError ==
    (pc = "parsed" /\ (chain = "OpenAIFunctionsAgentOutputParser" => message.type = "AIMessage"))
        => parsed[1].kind \in {"AgentAction", "AgentFinish", "OutputParserException"}

\* the part of the scratchpad that follows the trace-derived text
C26_Accumulated ==
    SubSeq(agent_scratchpad, Len(thoughts(intermediate_steps)) + 1, Len(agent_scratchpad))

\* C26: in the fix-text loop of Agent.plan the scratchpad given to each
\* repeated model call is the trace-derived scratchpad followed by the fixed
\* model output accumulated so far, every model-produced fragment appearing
\* exactly once.
C26_NoDuplicateFragments ==
    (chain = "AgentExecutor" /\ pc \in {"fix", "dispatch"} /\ fix_attempts >= 1) =>
        /\ agent_scratchpad =
              thoughts(intermediate_steps) \o SubSeq(full_output, 1, Len(full_output) - 1)
        /\ Len(SelectSeq(C26_Accumulated, LAMBDA x : x \in LLMOutputs)) = fix_attempts

\* AgentExecutor.output_keys (agent.py, lines 182-191)
C27_output_keys ==
    Range(return_values)
        \cup (IF return_intermediate_steps THEN {"intermediate_steps"} ELSE {})

\* C27: every mapping returned by AgentExecutor._call has exactly the keys
\* declared by output_keys, on the FINISHED path and on the STOPPED_BY_LIMIT
\* path, for every configured return_values list.
C27_DeclaredKeys ==
    (chain = "AgentExecutor" /\ pc \in {"FINISHED", "STOPPED_BY_LIMIT"})
        => DOMAIN final_output = C27_output_keys

C28_WithinBound == max_iterations # None => model_calls <= max_iterations[1]

\* C28: with max_iterations set to N, every model output parsing and every
\* model and tool call returning, an AgentExecutor invocation eventually
\* terminates, in FINISHED or STOPPED_BY_LIMIT, after at most N model calls.
C28_TerminatesWithinN ==
    /\ []C28_WithinBound
    /\ (max_iterations # None) ~> (pc \in {"FINISHED", "STOPPED_BY_LIMIT"})

\* the bound was reached: N model calls were made and the invocation stopped
C28_Witness ==
    /\ max_iterations = Some(MaxIterationsBound)
    /\ pc = "STOPPED_BY_LIMIT"
    /\ model_calls = MaxIterationsBound
    /\ Len(intermediate_steps) = MaxIterationsBound

C29_FinishMarker == "So the final answer is: "

\* C29: whenever SelfAskOutputParser.parse returns a Finish, its output is
\* exactly the text that follows the marker "So the final answer is: " on the
\* last line, wherever on that line the marker occurs; and a follow-up marker
\* on the last line takes precedence, yielding an Action for the tool
\* "Intermediate Answer".
C29_FinishIsTextAfterMarker ==
    (pc = "parsed" /\ chain = "SelfAskOutputParser") =>
        LET ll == last_line(self_ask_text)
            r == parsed[1]
        IN  /\ r.kind = "AgentFinish" =>
                  \E i \in 1..Len(ll) :
                      /\ SubSeq(ll, i, i + Len(C29_FinishMarker) - 1) = C29_FinishMarker
                      /\ r.return_values["output"]
                            = SubSeq(ll, i + Len(C29_FinishMarker), Len(ll))
            /\ (Contains(ll, "Follow up:") \/ Contains(ll, "Followup:")) =>
                  r.kind = "AgentAction" /\ r.tool = "Intermediate Answer"

C30_Outgoing(g, id) == Len(SelectSeq(g.edges, LAMBDA edge : edge[1] = id))

\* C30: Graph.trim_first_node removes the first node only if that does not
\* leave the graph without a first node: after a removal from a graph of more
\* than one node, first_node() of the remaining graph is not None; nothing is
\* removed when there is no unique first node or the first node has more than
\* one outgoing edge; every remaining edge has both endpoints in the graph.
C30_TrimKeepsFirstNode ==
    (chain = "Graph" /\ pc = "trimmed") =>
        /\ (graph.nodes # graph.before.nodes /\ Cardinality(graph.before.nodes) > 1)
              => first_node(graph) # None
        /\ (\/ first_node(graph.before) = None
            \/ C30_Outgoing(graph.before, first_node(graph.before)[1]) > 1)
              => graph.nodes = graph.before.nodes /\ graph.edges = graph.before.edges
        /\ \A i \in DOMAIN graph.edges :
              graph.edges[i][1] \in graph.nodes /\ graph.edges[i][2] \in graph.nodes

============================================================================
